---- MODULE Spec2Model ----
(***************************************************************************)
(* Model of the PCjs device backplane: the Bus (address space) and its     *)
(* Memory blocks, with access trapping and dirty tracking, and Time (the   *)
(* cycle scheduler) with its timers and run/stop/step state machine.       *)
(***************************************************************************)
EXTENDS Integers, Sequences, FiniteSets, TLC

VARIABLES
    cfg,        \* Bus/machine configuration: type, littleEndian, arrayBuffer, hostLE
    bus,        \* Bus fields: nTraps and the selected accessors
    blocks,     \* Bus.blocks: slot index -> identity of the Memory object in the slot
    mem,        \* the Memory objects, by identity
    fPowered,   \* Machine.fPowered: the devices are built, restored and powered
    time        \* the machine's Time device and what it has pending in the window

vars == <<cfg, bus, blocks, mem, fPowered, time>>

----------------------------------------------------------------------------
\* Bounds of the model

\* most trap requests outstanding on the Bus at a time
MaxTraps == 2

\* values written through the Bus (single units)
DataVals == {0, 255}

\* callbacks handed to trapRead/trapWrite
Funcs == {"f", "g"}

----------------------------------------------------------------------------
\* Program constants

STATIC == 0
DYNAMIC == 1

NONE == 1
READONLY == 2
READWRITE == 4

\* the value of a Memory's addr when its config has none
UNDEFINED == -1

\* no function / no array (JavaScript null or undefined)
NULL == "null"
NoValues == <<>>

----------------------------------------------------------------------------
\* JavaScript integer operators on the non-negative numbers the Bus handles

RECURSIVE BitAnd(_, _)
BitAnd(a, b) ==
    IF a = 0 \/ b = 0 THEN 0
    ELSE (a % 2) * (b % 2) + 2 * BitAnd(a \div 2, b \div 2)

RECURSIVE BitOr(_, _)
BitOr(a, b) ==
    IF a = 0 THEN b
    ELSE IF b = 0 THEN a
    ELSE (IF a % 2 = 1 \/ b % 2 = 1 THEN 1 ELSE 0) + 2 * BitOr(a \div 2, b \div 2)

Shl(a, n) == a * (2 ^ n)

Shr(a, n) == a \div (2 ^ n)

RECURSIVE Log2(_)
Log2(n) == IF n <= 1 THEN 0 ELSE 1 + Log2(n \div 2)

----------------------------------------------------------------------------
\* Bus geometry (Bus constructor)

addrWidth == 2

cfgBlockSize == 2

dataWidth == 8

addrTotal == 2 ^ addrWidth

addrLimit == addrTotal - 1

blockSize == IF cfgBlockSize > addrTotal THEN addrTotal ELSE cfgBlockSize

blockTotal == addrTotal \div blockSize

blockShift == Log2(blockSize)

blockLimit == Shl(1, blockShift) - 1

dataLimit == (2 ^ dataWidth) - 1

pairLimit == (2 ^ (dataWidth * 2)) - 1

Addrs == 0 .. addrLimit

Slots == 0 .. (blockTotal - 1)

\* pair values: every combination of two written units
PairVals == {lo + Shl(hi, dataWidth) : lo \in DataVals, hi \in DataVals}

----------------------------------------------------------------------------
\* Memory: construction

\* Array(size).fill(v)
Fill(size, v) == [i \in 1 .. size |-> v]

\* a store into values[]: a Uint8Array keeps the low 8 bits (0 for undefined),
\* an Array what it is given
Stored(b, v) == IF b.buffer THEN (IF v = UNDEFINED THEN 0 ELSE v % 256) ELSE v

initValues(b, values) ==
    IF b.values = NoValues
    THEN IF values # NoValues
         THEN [b EXCEPT !.values = values]
         ELSE [b EXCEPT !.values = Fill(b.size, dataLimit)]
    ELSE IF values # NoValues
         THEN [b EXCEPT !.values = [i \in 1 .. b.size |-> Stored(b, values[i])]]
         ELSE b

Memory(idDevice, c, type, addr, size, values) ==
    LET static == c.type = STATIC
        buffered == static /\ dataWidth = 8 /\ c.arrayBuffer
        readValue == "readValue"
        writeValue == IF static THEN "writeValueDirty" ELSE "writeValue"
        readPair ==
            IF ~static THEN "readValuePair"
            ELSE IF buffered
                 THEN (IF c.littleEndian = c.hostLE
                       THEN "readValuePair16" ELSE "readValuePair16SE")
                 ELSE (IF c.littleEndian THEN "readValuePairLE" ELSE "readValuePairBE")
        writePair == IF static THEN "writeValuePairDirty" ELSE "writeValuePair"
        b0 == [ idDevice |-> idDevice,
                type |-> type, addr |-> addr, size |-> size,
                littleEndian |-> c.littleEndian, hostLE |-> c.hostLE,
                buffer |-> buffered,
                values |-> IF buffered THEN Fill(size, 0) ELSE NoValues,
                fDirty |-> FALSE,
                readData |-> NULL, writeData |-> NULL,
                readPair |-> NULL, writePair |-> NULL,
                nReadTraps |-> 0, nWriteTraps |-> 0,
                readTrap |-> NULL, writeTrap |-> NULL,
                readDataOrig |-> NULL, writeDataOrig |-> NULL,
                readPairOrig |-> NULL, writePairOrig |-> NULL ]
        b1 == initValues(b0, values)
    IN  CASE type = NONE ->
                [b1 EXCEPT !.readData = "readNone", !.writeData = "writeNone",
                           !.readPair = "readNonePair", !.writePair = "writeNone"]
          [] type = READONLY ->
                [b1 EXCEPT !.readData = readValue, !.writeData = "writeNone",
                           !.readPair = readPair, !.writePair = "writeNone"]
          [] type = READWRITE ->
                [b1 EXCEPT !.readData = readValue, !.writeData = writeValue,
                           !.readPair = readPair, !.writePair = writePair]
          [] OTHER -> b1

----------------------------------------------------------------------------
\* Memory: the trap callback as the block sees it. A callback is an observer:
\* it is recorded with its three arguments and with what values[offset] holds
\* at the moment it runs.

TrapCall(b, func, offset, value) ==
    [ func |-> func, base |-> b.addr, offset |-> offset, value |-> value,
      stored |-> b.values[offset + 1] ]

----------------------------------------------------------------------------
\* Memory: read handlers. Each yields the value.

readNone(b, offset) == dataLimit

readValue(b, offset) == b.values[offset + 1]

readNonePair(b, offset) ==
    IF b.littleEndian
    THEN BitOr(readNone(b, offset), Shl(readNone(b, offset + 1), dataWidth))
    ELSE BitOr(readNone(b, offset + 1), Shl(readNone(b, offset), dataWidth))

readValuePair(b, offset) ==
    IF b.littleEndian
    THEN BitOr(readValue(b, offset), Shl(readValue(b, offset + 1), dataWidth))
    ELSE BitOr(readValue(b, offset + 1), Shl(readValue(b, offset), dataWidth))

\* readValuePairBE as it would be with the two units taken in the other order
readValuePairBE_Swapped(b, offset) ==
    BitOr(b.values[offset + 1], Shl(b.values[offset + 2], dataWidth))

readValuePairBE(b, offset) ==
    BitOr(b.values[offset + 2], Shl(b.values[offset + 1], dataWidth))

readValuePairLE(b, offset) ==
    BitOr(b.values[offset + 1], Shl(b.values[offset + 2], dataWidth))

\* a 16-bit load from the buffer at an even byte offset, in the given byte order
GetUint16(b, offset, littleEndian) ==
    IF littleEndian
    THEN b.values[offset + 1] + 256 * b.values[offset + 2]
    ELSE b.values[offset + 2] + 256 * b.values[offset + 1]

\* valuePairs[] is a Uint16Array over the buffer: host byte order
readValuePair16(b, offset) == GetUint16(b, 2 * Shr(offset, 1), b.hostLE)

readValuePair16SE(b, offset) == GetUint16(b, offset, b.littleEndian)

\* the handler a function-valued property refers to, applied
CallRead(b, h, offset) ==
    CASE h = "readNone" -> readNone(b, offset)
      [] h = "readValue" -> readValue(b, offset)

CallReadPair(b, h, offset) ==
    CASE h = "readNonePair" -> readNonePair(b, offset)
      [] h = "readValuePair" -> readValuePair(b, offset)
      [] h = "readValuePairBE" -> readValuePairBE(b, offset)
      [] h = "readValuePairLE" -> readValuePairLE(b, offset)
      [] h = "readValuePair16" -> readValuePair16(b, offset)
      [] h = "readValuePair16SE" -> readValuePair16SE(b, offset)

\* the closures trapRead installs: read first, then the callback
readDataTrap(b, offset) ==
    LET value == CallRead(b, b.readDataOrig, offset)
    IN  [ ret |-> value, log |-> <<TrapCall(b, b.readTrap, offset, value)>> ]

\* readPairTrap as it would be if the callback were given each unit's value
readPairTrap_UnitValues(b, offset) ==
    [ ret |-> CallReadPair(b, b.readPairOrig, offset),
      log |-> << TrapCall(b, b.readTrap, offset, CallRead(b, b.readDataOrig, offset)),
                 TrapCall(b, b.readTrap, offset + 1,
                          CallRead(b, b.readDataOrig, offset + 1)) >> ]

readPairTrap(b, offset) ==
    LET value == CallReadPair(b, b.readPairOrig, offset)
    IN  [ ret |-> value,
          log |-> << TrapCall(b, b.readTrap, offset, value),
                     TrapCall(b, b.readTrap, offset + 1, value) >> ]

\* block.readData(offset) and block.readPair(offset): [ret, log]
BlockReadData(b, offset) ==
    IF b.readData = "readDataTrap"
    THEN readDataTrap(b, offset)
    ELSE [ ret |-> CallRead(b, b.readData, offset), log |-> <<>> ]

BlockReadPair(b, offset) ==
    IF b.readPair = "readPairTrap"
    THEN readPairTrap(b, offset)
    ELSE [ ret |-> CallReadPair(b, b.readPair, offset), log |-> <<>> ]

----------------------------------------------------------------------------
\* Memory: write handlers. Each yields the block after the write.

writeNone(b, offset, value) == b

\* writeValue as it would be with the value cut to seven bits
writeValue_SevenBits(b, offset, value) ==
    [b EXCEPT !.values[offset + 1] = Stored(b, BitAnd(value, 127))]

writeValue(b, offset, value) ==
    [b EXCEPT !.values[offset + 1] = Stored(b, value)]

\* writeValueDirty as it would be without the nWriteTraps test: the plain
\* handler is put in writeData even while a trap wrapper sits there
writeValueDirty_Unwrap(b, offset, value) ==
    [b EXCEPT !.values[offset + 1] = Stored(b, value), !.fDirty = TRUE,
              !.writeData = "writeValue"]

writeValueDirty(b, offset, value) ==
    LET b1 == [b EXCEPT !.values[offset + 1] = Stored(b, value), !.fDirty = TRUE]
    IN  IF b.nWriteTraps = 0
        THEN [b1 EXCEPT !.writeData = "writeValue"]
        ELSE [b1 EXCEPT !.writeDataOrig = "writeValue"]

writeValuePair(b, offset, value) ==
    IF b.littleEndian
    THEN writeValue(writeValue(b, offset, BitAnd(value, dataLimit)),
                    offset + 1, Shr(value, dataWidth))
    ELSE writeValue(writeValue(b, offset, Shr(value, dataWidth)),
                    offset + 1, BitAnd(value, dataLimit))

writeValuePairBE(b, offset, value) ==
    [b EXCEPT !.values[offset + 1] = Stored(b, Shr(value, dataWidth)),
              !.values[offset + 2] = Stored(b, BitAnd(value, dataLimit))]

writeValuePairLE(b, offset, value) ==
    [b EXCEPT !.values[offset + 1] = Stored(b, BitAnd(value, dataLimit)),
              !.values[offset + 2] = Stored(b, Shr(value, dataWidth))]

\* a 16-bit store into the buffer at an even byte offset, in the given byte order
SetUint16(b, offset, value, littleEndian) ==
    LET v16 == value % 65536
    IN  IF littleEndian
        THEN [b EXCEPT !.values[offset + 1] = v16 % 256,
                       !.values[offset + 2] = v16 \div 256]
        ELSE [b EXCEPT !.values[offset + 1] = v16 \div 256,
                       !.values[offset + 2] = v16 % 256]

writeValuePair16(b, offset, value) ==
    SetUint16(b, 2 * Shr(offset, 1), value, b.hostLE)

writeValuePair16SE(b, offset, value) ==
    SetUint16(b, offset, value, b.littleEndian)

\* the pair handler writeValuePairDirty stores with and then selects
PairHandler(b) ==
    IF ~b.buffer
    THEN (IF b.littleEndian THEN "writeValuePairLE" ELSE "writeValuePairBE")
    ELSE (IF b.littleEndian = b.hostLE
          THEN "writeValuePair16" ELSE "writeValuePair16SE")

writeValuePairDirty(b, offset, value) ==
    LET h == PairHandler(b)
        b1 == CASE h = "writeValuePairLE" -> writeValuePairLE(b, offset, value)
                [] h = "writeValuePairBE" -> writeValuePairBE(b, offset, value)
                [] h = "writeValuePair16" -> writeValuePair16(b, offset, value)
                [] h = "writeValuePair16SE" -> writeValuePair16SE(b, offset, value)
    IN  IF b.nWriteTraps = 0
        THEN [b1 EXCEPT !.writePair = h]
        ELSE [b1 EXCEPT !.writePairOrig = h]

CallWrite(b, h, offset, value) ==
    CASE h = "writeNone" -> writeNone(b, offset, value)
      [] h = "writeValue" -> writeValue(b, offset, value)
      [] h = "writeValueDirty" -> writeValueDirty(b, offset, value)

CallWritePair(b, h, offset, value) ==
    CASE h = "writeNone" -> writeNone(b, offset, value)
      [] h = "writeValuePair" -> writeValuePair(b, offset, value)
      [] h = "writeValuePairDirty" -> writeValuePairDirty(b, offset, value)
      [] h = "writeValuePairBE" -> writeValuePairBE(b, offset, value)
      [] h = "writeValuePairLE" -> writeValuePairLE(b, offset, value)
      [] h = "writeValuePair16" -> writeValuePair16(b, offset, value)
      [] h = "writeValuePair16SE" -> writeValuePair16SE(b, offset, value)

\* the closures trapWrite installs: the callback first, then the write
\* writeDataTrap as it would be with the callback run after the write
writeDataTrap_After(b, offset, value) ==
    LET b1 == CallWrite(b, b.writeDataOrig, offset, value)
    IN  [ b |-> b1, log |-> <<TrapCall(b1, b.writeTrap, offset, value)>> ]

writeDataTrap(b, offset, value) ==
    [ b |-> CallWrite(b, b.writeDataOrig, offset, value),
      log |-> <<TrapCall(b, b.writeTrap, offset, value)>> ]

writePairTrap(b, offset, value) ==
    [ b |-> CallWritePair(b, b.writePairOrig, offset, value),
      log |-> << TrapCall(b, b.writeTrap, offset, value),
                 TrapCall(b, b.writeTrap, offset + 1, value) >> ]

\* block.writeData(offset, value) and block.writePair(offset, value): [b, log]
BlockWriteData(b, offset, value) ==
    IF b.writeData = "writeDataTrap"
    THEN writeDataTrap(b, offset, value)
    ELSE [ b |-> CallWrite(b, b.writeData, offset, value), log |-> <<>> ]

BlockWritePair(b, offset, value) ==
    IF b.writePair = "writePairTrap"
    THEN writePairTrap(b, offset, value)
    ELSE [ b |-> CallWritePair(b, b.writePair, offset, value), log |-> <<>> ]

----------------------------------------------------------------------------
\* Memory: isDirty, traps, loadState. Each yields [b, ret].

\* isDirty as it would be if it only cleared the flag, the write handlers left
\* as they are
isDirty_FlagOnly(b) ==
    IF b.fDirty
    THEN [ b |-> [b EXCEPT !.fDirty = FALSE], ret |-> TRUE ]
    ELSE [ b |-> b, ret |-> FALSE ]

isDirty(b) ==
    IF b.fDirty
    THEN [ b |-> IF b.nWriteTraps = 0
                 THEN [b EXCEPT !.fDirty = FALSE,
                                !.writeData = "writeValueDirty",
                                !.writePair = "writeValuePairDirty"]
                 ELSE [b EXCEPT !.fDirty = FALSE,
                                !.writeDataOrig = "writeValueDirty",
                                !.writePairOrig = "writeValuePairDirty"],
           ret |-> TRUE ]
    ELSE [ b |-> b, ret |-> FALSE ]

\* trapRead as it would be without the comparison of callbacks
trapRead_AnyFunc(b, func) ==
    IF b.nReadTraps = 0
    THEN [ b |-> [b EXCEPT !.nReadTraps = 1,
                           !.readTrap = func,
                           !.readDataOrig = b.readData,
                           !.readPairOrig = b.readPair,
                           !.readData = "readDataTrap",
                           !.readPair = "readPairTrap"],
           ret |-> TRUE ]
    ELSE [ b |-> [b EXCEPT !.nReadTraps = @ + 1], ret |-> TRUE ]

trapRead(b, func) ==
    IF b.nReadTraps = 0
    THEN [ b |-> [b EXCEPT !.nReadTraps = 1,
                           !.readTrap = func,
                           !.readDataOrig = b.readData,
                           !.readPairOrig = b.readPair,
                           !.readData = "readDataTrap",
                           !.readPair = "readPairTrap"],
           ret |-> TRUE ]
    ELSE IF b.readTrap = func
    THEN [ b |-> [b EXCEPT !.nReadTraps = @ + 1], ret |-> TRUE ]
    ELSE [ b |-> b, ret |-> FALSE ]

trapWrite(b, func) ==
    IF b.nWriteTraps = 0
    THEN [ b |-> [b EXCEPT !.nWriteTraps = 1,
                           !.writeTrap = func,
                           !.writeDataOrig = b.writeData,
                           !.writePairOrig = b.writePair,
                           !.writeData = "writeDataTrap",
                           !.writePair = "writePairTrap"],
           ret |-> TRUE ]
    ELSE IF b.writeTrap = func
    THEN [ b |-> [b EXCEPT !.nWriteTraps = @ + 1], ret |-> TRUE ]
    ELSE [ b |-> b, ret |-> FALSE ]

\* untrapRead as it would be without the reference count: the first matching
\* request takes the hook off
untrapRead_First(b, func) ==
    IF b.nReadTraps # 0 /\ b.readTrap = func
    THEN [ b |-> [b EXCEPT !.nReadTraps = 0,
                           !.readData = b.readDataOrig,
                           !.readPair = b.readPairOrig,
                           !.readDataOrig = NULL,
                           !.readPairOrig = NULL,
                           !.readTrap = NULL],
           ret |-> TRUE ]
    ELSE [ b |-> b, ret |-> FALSE ]

untrapRead(b, func) ==
    IF b.nReadTraps # 0 /\ b.readTrap = func
    THEN [ b |-> IF b.nReadTraps - 1 = 0
                 THEN [b EXCEPT !.nReadTraps = 0,
                                !.readData = b.readDataOrig,
                                !.readPair = b.readPairOrig,
                                !.readDataOrig = NULL,
                                !.readPairOrig = NULL,
                                !.readTrap = NULL]
                 ELSE [b EXCEPT !.nReadTraps = @ - 1],
           ret |-> TRUE ]
    ELSE [ b |-> b, ret |-> FALSE ]

\* untrapWrite as it would be without the comparison of callbacks
untrapWrite_AnyFunc(b, func) ==
    IF b.nWriteTraps # 0
    THEN [ b |-> IF b.nWriteTraps - 1 = 0
                 THEN [b EXCEPT !.nWriteTraps = 0,
                                !.writeData = b.writeDataOrig,
                                !.writePair = b.writePairOrig,
                                !.writeDataOrig = NULL,
                                !.writePairOrig = NULL,
                                !.writeTrap = NULL]
                 ELSE [b EXCEPT !.nWriteTraps = @ - 1],
           ret |-> TRUE ]
    ELSE [ b |-> b, ret |-> FALSE ]

untrapWrite(b, func) ==
    IF b.nWriteTraps # 0 /\ b.writeTrap = func
    THEN [ b |-> IF b.nWriteTraps - 1 = 0
                 THEN [b EXCEPT !.nWriteTraps = 0,
                                !.writeData = b.writeDataOrig,
                                !.writePair = b.writePairOrig,
                                !.writeDataOrig = NULL,
                                !.writePairOrig = NULL,
                                !.writeTrap = NULL]
                 ELSE [b EXCEPT !.nWriteTraps = @ - 1],
           ret |-> TRUE ]
    ELSE [ b |-> b, ret |-> FALSE ]

\* state is the saved tuple [idDevice, fDirty, values]; the values are handed
\* over as decompress() returns them for an array of the block's length
MemoryLoadState(b, state) ==
    IF b.idDevice = state.idDevice
    THEN [ b |-> initValues([b EXCEPT !.fDirty = state.fDirty], state.values),
           ret |-> TRUE ]
    ELSE [ b |-> b, ret |-> FALSE ]

----------------------------------------------------------------------------
\* Bus: accessors. m is the heap of Memory objects.

\* the slot lookup as it would be with the shift one bit too long
BlockOf_WideShift(bl, addr) == bl[Shr(addr, blockShift + 1)]

BlockOf(bl, addr) == bl[Shr(addr, blockShift)]

OffsetOf(addr) == BitAnd(addr, blockLimit)

\* [ret, log]
readBlockData(bl, m, addr) ==
    BlockReadData(m[BlockOf(bl, addr)], OffsetOf(addr))

\* [m, log]
writeBlockData(bl, m, addr, value) ==
    LET r == BlockWriteData(m[BlockOf(bl, addr)], OffsetOf(addr), value)
    IN  [ m |-> [m EXCEPT ![BlockOf(bl, addr)] = r.b], log |-> r.log ]

\* this.readData / this.writeData as selectInterface sets them
BusReadData(bs, bl, m, addr) ==
    CASE bs.readData = "readBlockData" -> readBlockData(bl, m, addr)

BusWriteData(bs, bl, m, addr, value) ==
    CASE bs.writeData = "writeBlockData" -> writeBlockData(bl, m, addr, value)

readBlockPairBE(bs, bl, m, addr) ==
    IF BitAnd(addr, 1) # 0
    THEN LET r1 == BusReadData(bs, bl, m, BitAnd(addr + 1, addrLimit))
             r2 == BusReadData(bs, bl, m, addr)
         IN  [ ret |-> BitOr(r1.ret, Shl(r2.ret, dataWidth)),
               log |-> r1.log \o r2.log ]
    ELSE BlockReadPair(m[BlockOf(bl, addr)], OffsetOf(addr))

readBlockPairLE(bs, bl, m, addr) ==
    IF BitAnd(addr, 1) # 0
    THEN LET r1 == BusReadData(bs, bl, m, addr)
             r2 == BusReadData(bs, bl, m, BitAnd(addr + 1, addrLimit))
         IN  [ ret |-> BitOr(r1.ret, Shl(r2.ret, dataWidth)),
               log |-> r1.log \o r2.log ]
    ELSE BlockReadPair(m[BlockOf(bl, addr)], OffsetOf(addr))

BlockPairWrite(bl, m, addr, value) ==
    LET r == BlockWritePair(m[BlockOf(bl, addr)], OffsetOf(addr), value)
    IN  [ m |-> [m EXCEPT ![BlockOf(bl, addr)] = r.b], log |-> r.log ]

writeBlockPairBE(bs, bl, m, addr, value) ==
    IF BitAnd(addr, 1) # 0
    THEN LET w1 == BusWriteData(bs, bl, m, addr, Shr(value, dataWidth))
             w2 == BusWriteData(bs, bl, w1.m, BitAnd(addr + 1, addrLimit),
                                BitAnd(value, dataLimit))
         IN  [ m |-> w2.m, log |-> w1.log \o w2.log ]
    ELSE BlockPairWrite(bl, m, addr, value)

\* writeBlockPairLE as it would be with the two parts of an unaligned pair
\* written the other way round
writeBlockPairLE_Swapped(bs, bl, m, addr, value) ==
    IF BitAnd(addr, 1) # 0
    THEN LET w1 == BusWriteData(bs, bl, m, addr, Shr(value, dataWidth))
             w2 == BusWriteData(bs, bl, w1.m, BitAnd(addr + 1, addrLimit),
                                BitAnd(value, dataLimit))
         IN  [ m |-> w2.m, log |-> w1.log \o w2.log ]
    ELSE BlockPairWrite(bl, m, addr, value)

writeBlockPairLE(bs, bl, m, addr, value) ==
    IF BitAnd(addr, 1) # 0
    THEN LET w1 == BusWriteData(bs, bl, m, addr, BitAnd(value, dataLimit))
             w2 == BusWriteData(bs, bl, w1.m, BitAnd(addr + 1, addrLimit),
                                Shr(value, dataWidth))
         IN  [ m |-> w2.m, log |-> w1.log \o w2.log ]
    ELSE BlockPairWrite(bl, m, addr, value)

BusReadPair(bs, bl, m, addr) ==
    CASE bs.readPair = "readBlockPairBE" -> readBlockPairBE(bs, bl, m, addr)
      [] bs.readPair = "readBlockPairLE" -> readBlockPairLE(bs, bl, m, addr)

BusWritePair(bs, bl, m, addr, value) ==
    CASE bs.writePair = "writeBlockPairBE" -> writeBlockPairBE(bs, bl, m, addr, value)
      [] bs.writePair = "writeBlockPairLE" -> writeBlockPairLE(bs, bl, m, addr, value)

selectInterface(c, bs, nDelta) ==
    LET nTraps == bs.nTraps
        bs1 == [bs EXCEPT !.nTraps = @ + nDelta]
    IN  IF nTraps = 0 \/ bs1.nTraps = 0
        THEN [bs1 EXCEPT
                !.readData = "readBlockData",
                !.writeData = "writeBlockData",
                !.readPair = IF ~c.littleEndian THEN "readBlockPairBE"
                             ELSE "readBlockPairLE",
                !.writePair = IF ~c.littleEndian THEN "writeBlockPairBE"
                              ELSE "writeBlockPairLE"]
        ELSE bs1

----------------------------------------------------------------------------
\* Bus: cleanBlocks and loadState. Each yields [m, ret].

RECURSIVE CleanLoop(_, _, _, _, _, _)
CleanLoop(bl, m, iBlock, size, sizeBlock, clean) ==
    IF size > 0 /\ iBlock < blockTotal
    THEN LET r == isDirty(m[bl[iBlock]])
         IN  CleanLoop(bl, [m EXCEPT ![bl[iBlock]] = r.b], iBlock + 1,
                       size - sizeBlock, blockSize,
                       IF r.ret THEN FALSE ELSE clean)
    ELSE [ m |-> m, ret |-> clean ]

cleanBlocks(bl, m, addr, size) ==
    CleanLoop(bl, m, Shr(addr, blockShift), size,
              blockSize - BitAnd(addr, blockLimit), TRUE)

\* the blocks Bus.loadState and Bus.saveState visit
Persistent(c, b) == c.type = DYNAMIC \/ BitAnd(b.type, READWRITE) # 0

RECURSIVE LoadLoop(_, _, _, _, _)
LoadLoop(c, bl, m, iBlock, state) ==
    IF iBlock < blockTotal
    THEN IF Persistent(c, m[bl[iBlock]])
         THEN LET r == MemoryLoadState(m[bl[iBlock]], Head(state))
              IN  IF ~r.ret THEN [ m |-> m, ret |-> FALSE ]
                  ELSE LoadLoop(c, bl, [m EXCEPT ![bl[iBlock]] = r.b],
                                iBlock + 1, Tail(state))
         ELSE LoadLoop(c, bl, m, iBlock + 1, state)
    ELSE [ m |-> m, ret |-> TRUE ]

loadState(c, bl, m, state) == LoadLoop(c, bl, m, 0, state)

----------------------------------------------------------------------------
\* Bus: construction and addBlocks

\* identity of the NONE placeholder, and of the block addBlocks makes for a slot
NoneId == 0

NewId(iBlock) == iBlock + 1

\* the Bus as it would be if its constructor made a placeholder for each slot
Bus_OwnPlaceholders(c) ==
    [ blocks |-> [i \in Slots |-> -i],
      mem |-> [id \in {-i : i \in Slots} |->
                  Memory(id, c, NONE, UNDEFINED, blockSize, NoValues)],
      bus |-> selectInterface(c, [ nTraps |-> 0, readData |-> NULL,
                                   writeData |-> NULL, readPair |-> NULL,
                                   writePair |-> NULL ], c.type) ]

\* the Bus after its constructor: every slot holds the one NONE placeholder
Bus(c) ==
    [ blocks |-> [i \in Slots |-> NoneId],
      mem |-> (NoneId :> Memory(NoneId, c, NONE, UNDEFINED, blockSize, NoValues)),
      bus |-> selectInterface(c, [ nTraps |-> 0, readData |-> NULL,
                                   writeData |-> NULL, readPair |-> NULL,
                                   writePair |-> NULL ], c.type) ]

\* the addBlocks loop as it would be without the test of alignment and size
RECURSIVE AddLoop_NoTest(_, _, _, _, _, _, _)
AddLoop_NoTest(c, bl, m, addrNext, sizeLeft, type, iBlock) ==
    IF sizeLeft > 0 /\ iBlock < blockTotal
    THEN LET addrBlock == iBlock * blockSize
             sizeBlock0 == blockSize - (addrNext - addrBlock)
             sizeBlock == IF sizeBlock0 > sizeLeft THEN sizeLeft ELSE sizeBlock0
         IN  IF m[bl[iBlock]].type # NONE
             THEN [ blocks |-> bl, mem |-> m, ret |-> FALSE ]
             ELSE AddLoop_NoTest(c,
                          [bl EXCEPT ![iBlock] = NewId(iBlock)],
                          (NewId(iBlock) :>
                              Memory(NewId(iBlock), c, type, addrNext, sizeBlock,
                                     NoValues)) @@ m,
                          addrBlock + blockSize, sizeLeft - sizeBlock, type,
                          iBlock + 1)
    ELSE [ blocks |-> bl, mem |-> m, ret |-> TRUE ]

\* addBlocks(addr, size, type) with no block handed in: [blocks, mem, ret]
RECURSIVE AddLoop(_, _, _, _, _, _, _)
AddLoop(c, bl, m, addrNext, sizeLeft, type, iBlock) ==
    IF sizeLeft > 0 /\ iBlock < blockTotal
    THEN LET addrBlock == iBlock * blockSize
             sizeBlock0 == blockSize - (addrNext - addrBlock)
             sizeBlock == IF sizeBlock0 > sizeLeft THEN sizeLeft ELSE sizeBlock0
         IN  IF addrNext # addrBlock \/ sizeBlock # blockSize
             THEN [ blocks |-> bl, mem |-> m, ret |-> FALSE ]
             ELSE IF m[bl[iBlock]].type # NONE
             THEN [ blocks |-> bl, mem |-> m, ret |-> FALSE ]
             ELSE AddLoop(c,
                          [bl EXCEPT ![iBlock] = NewId(iBlock)],
                          (NewId(iBlock) :>
                              Memory(NewId(iBlock), c, type, addrNext, sizeBlock,
                                     NoValues)) @@ m,
                          addrBlock + blockSize, sizeLeft - sizeBlock, type,
                          iBlock + 1)
    ELSE [ blocks |-> bl, mem |-> m, ret |-> TRUE ]

\* addBlocks as it would be if it reported success whatever the loop found
addBlocks_AlwaysTrue(c, bl, m, addr, size, type) ==
    [AddLoop(c, bl, m, addr, size, type, Shr(addr, blockShift)) EXCEPT !.ret = TRUE]

\* addBlocks as it would be if it refused a range that leaves the address space
addBlocks_ChecksEnd(c, bl, m, addr, size, type) ==
    IF addr + size > addrTotal
    THEN [ blocks |-> bl, mem |-> m, ret |-> FALSE ]
    ELSE AddLoop(c, bl, m, addr, size, type, Shr(addr, blockShift))

addBlocks(c, bl, m, addr, size, type) ==
    AddLoop(c, bl, m, addr, size, type, Shr(addr, blockShift))

----------------------------------------------------------------------------
\* Bus: trapRead, trapWrite, untrapRead, untrapWrite. Each yields [bus, mem, ret].

TrapResult(c, bs, m, id, r, nDelta) ==
    IF r.ret
    THEN [ bus |-> selectInterface(c, bs, nDelta),
           mem |-> [m EXCEPT ![id] = r.b], ret |-> TRUE ]
    ELSE [ bus |-> bs, mem |-> [m EXCEPT ![id] = r.b], ret |-> FALSE ]

BusTrapRead(c, bs, bl, m, addr, func) ==
    TrapResult(c, bs, m, BlockOf(bl, addr), trapRead(m[BlockOf(bl, addr)], func), 1)

BusTrapWrite(c, bs, bl, m, addr, func) ==
    TrapResult(c, bs, m, BlockOf(bl, addr), trapWrite(m[BlockOf(bl, addr)], func), 1)

\* untrapRead as it would be without the change of the Bus's trap count
BusUntrapRead_NoCount(c, bs, bl, m, addr, func) ==
    TrapResult(c, bs, m, BlockOf(bl, addr), untrapRead(m[BlockOf(bl, addr)], func), 0)

BusUntrapRead(c, bs, bl, m, addr, func) ==
    TrapResult(c, bs, m, BlockOf(bl, addr), untrapRead(m[BlockOf(bl, addr)], func), -1)

BusUntrapWrite(c, bs, bl, m, addr, func) ==
    TrapResult(c, bs, m, BlockOf(bl, addr), untrapWrite(m[BlockOf(bl, addr)], func), -1)

----------------------------------------------------------------------------
\* Time: the cycle scheduler
\*
\* A Time object t is the record of its fields.  Speeds and multipliers
\* (nBaseMultiplier, nCurrentMultiplier, nTargetMultiplier, and mhzCurrent and
\* mhzTarget relative to mhzBase) are kept in percent, nCyclesDeposited and
\* nCyclesDepositPerFrame in sixtieths of a cycle, so that the arithmetic of the
\* code is exact in integers.  Two more fields hold what the object's calls
\* leave in the window: timeouts, the pending setTimeout() callbacks by id, and
\* frames, the ids of the pending requestAnimationFrame() registrations; and
\* aCalls[i] counts the invocations of the callback of timer i.  The wall clock
\* (msStartRun, msEndRun, ...) only decides the speed the run loop measures,
\* which is an input of the handlers; nYields only paces the display update.

Max(a, b) == IF a >= b THEN a ELSE b
Min(a, b) == IF a <= b THEN a ELSE b

\* Math.ceil(a / b) and Math.round(a / b) for a >= 0, b > 0
Ceil(a, b) == (a + b - 1) \div b
Round(a, b) == (2 * a + b) \div (2 * b)

\* F applied to the value of v (v is evaluated once, before F)
With(v, F(_)) == CHOOSE r \in {F(x) : x \in {v}} : TRUE

\* WebIO.getBounded
getBounded(n, min, max) ==
    LET lo == IF n < min THEN min ELSE n
    IN  IF lo > max THEN max ELSE lo

\* window.setTimeout / requestAnimationFrame hand out an id not in use
FreshId(S) == CHOOSE i \in 1 .. Cardinality(S) + 1 : i \notin S

setTimeout(t, fn) ==
    LET id == FreshId(DOMAIN t.timeouts)
    IN  [ t |-> [t EXCEPT !.timeouts =
                    [i \in DOMAIN t.timeouts \cup {id} |->
                        IF i = id THEN fn ELSE t.timeouts[i]]],
          ret |-> id ]

clearTimeout(t, id) ==
    [t EXCEPT !.timeouts = [i \in DOMAIN t.timeouts \ {id} |-> t.timeouts[i]]]

requestAnimationFrame(t) ==
    LET id == FreshId(t.frames)
    IN  [ t |-> [t EXCEPT !.frames = @ \cup {id}], ret |-> id ]

cancelAnimationFrame(t, id) == [t EXCEPT !.frames = @ \ {id}]

\* the clocked devices: "cpu" is the CPU of the source, which clocks what it is
\* asked for and at least one cycle; "unit" clocks one cycle per call, "idle"
\* none (it returns 0), and "wide" one more than it is asked for; "halting"
\* and "arming" clock what the CPU clocks
startClock(clock, nCyclesTarget) ==
    CASE clock \in {"cpu", "halting", "arming"} ->
            IF nCyclesTarget >= 0 THEN Max(nCyclesTarget, 1) ELSE 0
      [] clock = "idle" -> 0
      [] clock = "wide" -> nCyclesTarget + 1
      [] OTHER -> 1

getCyclesPerMS(t, ms) ==
    Ceil(t.nCyclesPerSecond * t.nCurrentMultiplier * ms, 100 * 1000)

yield(t) == [t EXCEPT !.fYield = TRUE]

calcCycles(t) ==
    [t EXCEPT !.nCurrentMultiplier =
        IF t.mhzCurrent = 0 \/ t.mhzCurrent > t.nTargetMultiplier
        THEN t.nTargetMultiplier ELSE t.mhzCurrent]

\* fElapsed: the wall clock advanced since the run started; mhz: the speed it
\* then measures for nCycles > 0
calcSpeed(t, nCycles, fElapsed, mhz) ==
    IF fElapsed
    THEN [t EXCEPT !.mhzCurrent = IF nCycles = 0 THEN 0 ELSE mhz]
    ELSE t

\* endBurst as it would be if it left the burst's counts standing
endBurst_KeepsBurst(t, nCycles) ==
    LET nDeposited ==
            IF ~t.fClockByFrame THEN t.nCyclesDeposited
            ELSE IF ~t.fRunning THEN 0
            ELSE t.nCyclesDeposited - 60 * nCycles
        d == [t EXCEPT !.nCyclesDeposited = nDeposited]
        y == IF t.fClockByFrame /\ nDeposited < 60 THEN yield(d) ELSE d
    IN  [y EXCEPT !.nCyclesThisRun = @ + nCycles,
                  !.nCyclesRun = IF t.fRunning THEN @ + nCycles ELSE 0,
                  !.nCyclesLife = @ + nCycles]

endBurst(t, nCycles) ==
    LET nDeposited ==
            IF ~t.fClockByFrame THEN t.nCyclesDeposited
            ELSE IF ~t.fRunning THEN 0
            ELSE t.nCyclesDeposited - 60 * nCycles
        d == [t EXCEPT !.nCyclesDeposited = nDeposited]
        y == IF t.fClockByFrame /\ nDeposited < 60 THEN yield(d) ELSE d
    IN  [y EXCEPT !.nCyclesBurst = 0, !.nCyclesRemain = 0,
                  !.nCyclesThisRun = @ + nCycles,
                  !.nCyclesRun = IF t.fRunning THEN @ + nCycles ELSE 0,
                  !.nCyclesLife = @ + nCycles]

\* the smallest countdown of an armed timer, or nCycles when that is smaller
RECURSIVE TimerLimit(_, _, _)
TimerLimit(aTimers, iTimer, nCycles) ==
    IF iTimer = 0 THEN nCycles
    ELSE IF aTimers[iTimer].nCyclesLeft < 0
    THEN TimerLimit(aTimers, iTimer - 1, nCycles)
    ELSE TimerLimit(aTimers, iTimer - 1, Min(nCycles, aTimers[iTimer].nCyclesLeft))

\* getCyclesPerRun as it would be without the loop over the timers
getCyclesPerRun_NoTimers(t, fAnimation, nMinCycles) ==
    IF nMinCycles # 0
    THEN [ t |-> IF t.fClockByFrame
                 THEN [t EXCEPT !.nCyclesDeposited = @ + 60 * nMinCycles]
                 ELSE t,
           ret |-> nMinCycles ]
    ELSE IF fAnimation
    THEN LET n1 == IF t.nCyclesDeposited < 60
                   THEN t.nCyclesDeposited + t.nCyclesDepositPerFrame
                   ELSE t.nCyclesDeposited
             n2 == IF n1 < 0 THEN 0 ELSE n1
         IN  [ t |-> [t EXCEPT !.nCyclesDeposited = n2], ret |-> n2 \div 60 ]
    ELSE [ t |-> t, ret |-> getCyclesPerMS(t, t.msYield) ]

\* getCyclesPerRun as it would be if every call in a frame made a deposit
getCyclesPerRun_AlwaysDeposits(t, fAnimation, nMinCycles) ==
    IF nMinCycles # 0
    THEN [ t |-> IF t.fClockByFrame
                 THEN [t EXCEPT !.nCyclesDeposited = @ + 60 * nMinCycles]
                 ELSE t,
           ret |-> nMinCycles ]
    ELSE IF fAnimation
    THEN LET n1 == t.nCyclesDeposited + t.nCyclesDepositPerFrame
             n2 == IF n1 < 0 THEN 0 ELSE n1
         IN  [ t |-> [t EXCEPT !.nCyclesDeposited = n2],
               ret |-> TimerLimit(t.aTimers, Len(t.aTimers), n2 \div 60) ]
    ELSE [ t |-> t,
           ret |-> TimerLimit(t.aTimers, Len(t.aTimers),
                              getCyclesPerMS(t, t.msYield)) ]

getCyclesPerRun(t, fAnimation, nMinCycles) ==
    IF nMinCycles # 0
    THEN [ t |-> IF t.fClockByFrame
                 THEN [t EXCEPT !.nCyclesDeposited = @ + 60 * nMinCycles]
                 ELSE t,
           ret |-> nMinCycles ]
    ELSE IF fAnimation
    THEN LET n1 == IF t.nCyclesDeposited < 60
                   THEN t.nCyclesDeposited + t.nCyclesDepositPerFrame
                   ELSE t.nCyclesDeposited
             n2 == IF n1 < 0 THEN 0 ELSE n1
         IN  [ t |-> [t EXCEPT !.nCyclesDeposited = n2],
               ret |-> TimerLimit(t.aTimers, Len(t.aTimers), n2 \div 60) ]
    ELSE [ t |-> t,
           ret |-> TimerLimit(t.aTimers, Len(t.aTimers),
                              getCyclesPerMS(t, t.msYield)) ]

\* setTimer as it would be if it always took the reset flag as set
setTimer_AlwaysResets(t, iTimer, ms, fReset) ==
    IF iTimer > 0 /\ iTimer <= Len(t.aTimers)
    THEN LET e == IF t.fRunning
                  THEN endBurst(t, t.nCyclesBurst - t.nCyclesRemain) ELSE t
             nCycles == getCyclesPerMS(t, ms)
                          + (IF t.fRunning THEN t.nCyclesBurst - t.nCyclesRemain ELSE 0)
         IN  [ t |-> [e EXCEPT !.aTimers[iTimer].nCyclesLeft = nCycles],
               ret |-> nCycles ]
    ELSE [ t |-> t, ret |-> -1 ]

setTimer(t, iTimer, ms, fReset) ==
    IF iTimer > 0 /\ iTimer <= Len(t.aTimers)
       /\ (fReset \/ t.aTimers[iTimer].nCyclesLeft < 0)
    THEN LET e == IF t.fRunning
                  THEN endBurst(t, t.nCyclesBurst - t.nCyclesRemain) ELSE t
             nCycles == getCyclesPerMS(t, ms)
                          + (IF t.fRunning THEN t.nCyclesBurst - t.nCyclesRemain ELSE 0)
         IN  [ t |-> [e EXCEPT !.aTimers[iTimer].nCyclesLeft = nCycles],
               ret |-> nCycles ]
    ELSE [ t |-> t, ret |-> -1 ]

addTimer(t, callBack, msAuto) ==
    LET iTimer == Len(t.aTimers) + 1
        a == [t EXCEPT !.aTimers = Append(@, [ callBack |-> callBack, msAuto |-> msAuto,
                                               nCyclesLeft |-> -1 ]),
                       !.aCalls = Append(@, 0)]
    IN  [ t |-> IF msAuto >= 0 THEN setTimer(a, iTimer, msAuto, FALSE).t ELSE a,
          ret |-> iTimer ]

addClock(t, clock) == [t EXCEPT !.aClocks = Append(@, clock)]

RECURSIVE ResetLoop(_, _)
ResetLoop(t, iTimer) ==
    IF iTimer = 0 THEN t
    ELSE ResetLoop(IF t.aTimers[iTimer].msAuto >= 0
                   THEN setTimer(t, iTimer, t.aTimers[iTimer].msAuto, TRUE).t
                   ELSE t,
                   iTimer - 1)

resetTimers(t) == ResetLoop(t, Len(t.aTimers))

setSpeed(t, nMultiplier) ==
    LET fSuccess == ~(~t.fThrottling /\ t.mhzCurrent > 0
                        /\ 10 * t.mhzCurrent < 9 * t.mhzTarget)
        nTarget == IF fSuccess THEN nMultiplier ELSE t.nBaseMultiplier
        s == [t EXCEPT !.nTargetMultiplier = nTarget, !.mhzTarget = nTarget,
                       !.mhzCurrent = nTarget]
        f == IF t.fClockByFrame
             THEN [s EXCEPT !.nCyclesDepositPerFrame =
                                (t.nCyclesPerSecond * s.mhzCurrent) \div 100,
                            !.nCyclesDeposited = 0]
             ELSE s
    IN  [ t |-> resetTimers(calcCycles([f EXCEPT !.nCyclesRun = 0])),
          ret |-> fSuccess ]

resetSpeed(t) ==
    setSpeed([t EXCEPT !.nCyclesRun = 0, !.nCyclesBurst = 0, !.nCyclesRemain = 0],
             t.nBaseMultiplier).t

\* new Time(config); config.clockByFrame and config.requestAnimationFrame are
\* "default" when the configuration does not set them
Time(config) ==
    LET nCyclesPerSecond == getBounded(config.cyclesPerSecond,
                                       config.cyclesMinimum, config.cyclesMaximum)
        nYieldsPerSecond == getBounded(config.yieldsPerSecond, 30, 120)
        fClockByFrame == IF config.clockByFrame = "default"
                         THEN nCyclesPerSecond <= 120
                         ELSE config.clockByFrame = "true"
        t == [ nCyclesPerSecond |-> nCyclesPerSecond,
               fClockByFrame |-> fClockByFrame,
               fRequestAnimationFrame |->
                    fClockByFrame \/ config.requestAnimationFrame # "false",
               nBaseMultiplier |-> 100, nCurrentMultiplier |-> 100,
               nTargetMultiplier |-> 100, mhzCurrent |-> 100, mhzTarget |-> 100,
               msYield |-> Round(1000, nYieldsPerSecond),
               aClocks |-> <<>>, aTimers |-> <<>>, aCalls |-> <<>>,
               fPowered |-> FALSE, fRunning |-> FALSE, fYield |-> FALSE,
               fThrottling |-> FALSE, nStepping |-> 0,
               idRunTimeout |-> 0, idAnimation |-> 0,
               nCyclesLife |-> 0, nCyclesRun |-> 0, nCyclesThisRun |-> 0,
               nCyclesBurst |-> 0, nCyclesRemain |-> 0,
               nCyclesDeposited |-> 0, nCyclesDepositPerFrame |-> 0,
               timeouts |-> <<>>, frames |-> {} ]
    IN  resetSpeed(IF fClockByFrame THEN t
                   ELSE addTimer(t, "onYield", t.msYield).t)

stop_LeavesFrame(t) ==
    IF t.fRunning
    THEN LET e == endBurst([t EXCEPT !.fRunning = FALSE],
                           t.nCyclesBurst - t.nCyclesRemain)
             r == IF e.idRunTimeout # 0
                  THEN [clearTimeout(e, e.idRunTimeout) EXCEPT !.idRunTimeout = 0]
                  ELSE e
         IN  [ t |-> [r EXCEPT !.idAnimation = 0], ret |-> TRUE ]
    ELSE IF t.nStepping # 0
    THEN [ t |-> [t EXCEPT !.nStepping = 0], ret |-> TRUE ]
    ELSE [ t |-> t, ret |-> FALSE ]

stop(t) ==
    IF t.fRunning
    THEN LET e == endBurst([t EXCEPT !.fRunning = FALSE],
                           t.nCyclesBurst - t.nCyclesRemain)
             r == IF e.idRunTimeout # 0
                  THEN [clearTimeout(e, e.idRunTimeout) EXCEPT !.idRunTimeout = 0]
                  ELSE e
             a == IF r.idAnimation # 0
                  THEN [cancelAnimationFrame(r, r.idAnimation) EXCEPT !.idAnimation = 0]
                  ELSE r
         IN  [ t |-> a, ret |-> TRUE ]
    ELSE IF t.nStepping # 0
    THEN [ t |-> [t EXCEPT !.nStepping = 0], ret |-> TRUE ]
    ELSE [ t |-> t, ret |-> FALSE ]

start_WhileStepping(t) ==
    IF t.fRunning
    THEN [ t |-> t, ret |-> FALSE ]
    ELSE LET s == [t EXCEPT !.fRunning = TRUE]
             r == IF ~s.fClockByFrame
                  THEN LET q == setTimeout(s, "run")
                       IN  [q.t EXCEPT !.idRunTimeout = q.ret]
                  ELSE s
             a == IF r.fRequestAnimationFrame
                  THEN LET q == requestAnimationFrame(r)
                       IN  [q.t EXCEPT !.idAnimation = q.ret]
                  ELSE r
         IN  [ t |-> a, ret |-> TRUE ]

start(t) ==
    IF t.fRunning \/ t.nStepping # 0
    THEN [ t |-> t, ret |-> FALSE ]
    ELSE LET s == [t EXCEPT !.fRunning = TRUE]
             r == IF ~s.fClockByFrame
                  THEN LET q == setTimeout(s, "run")
                       IN  [q.t EXCEPT !.idRunTimeout = q.ret]
                  ELSE s
             a == IF r.fRequestAnimationFrame
                  THEN LET q == requestAnimationFrame(r)
                       IN  [q.t EXCEPT !.idAnimation = q.ret]
                  ELSE r
         IN  [ t |-> a, ret |-> TRUE ]

\* A Time may carry a meter: nClocked, the cycles its devices have reported
\* (a 0 taken as 1, the budget when there is no device), and nClockedAtRun, the
\* meter's reading when the current run segment started
Metered(t, nCycles) ==
    IF "nClocked" \in DOMAIN t THEN [t EXCEPT !.nClocked = @ + nCycles] ELSE t

MeterRun(t) ==
    IF "nClocked" \in DOMAIN t THEN [t EXCEPT !.nClockedAtRun = t.nClocked] ELSE t

\* and a log, aLog, of the timers called and of cyclesLife at each call
Logged(t, iTimer) ==
    IF "aLog" \in DOMAIN t THEN [t EXCEPT !.aLog = Append(@, <<iTimer, t.nCyclesLife>>)]
    ELSE t

\* ArmMs: the delay a device asks for when it arms a timer
ArmMs == 20

\* the last timer a device has registered, 0 when there is none
DeviceTimer(t) ==
    IF Len(t.aTimers) > 0 /\ t.aTimers[Len(t.aTimers)].callBack # "onYield"
    THEN Len(t.aTimers) ELSE 0

\* what a device does to its Time while it is clocked: "halting" stops the
\* clock, "arming" sets the device's timer anew, the others leave Time alone
clocked(t, clock) ==
    CASE clock = "halting" -> stop(t).t
      [] clock = "arming" -> setTimer(t, DeviceTimer(t), ArmMs, TRUE).t
      [] OTHER -> t

\* iFault names the clock (1-based) whose startClock throws, 0 for none; the
\* result is the Time when the loop is left, whether it was left by the throw,
\* and the startClock calls made: the clock (1-based) and the count it was
\* asked for
RECURSIVE ClockLoop(_, _, _, _, _)
ClockLoop(t, iClock, nCycles, iFault, calls) ==
    IF t.nCyclesRemain <= 0
    THEN [ t |-> t, thrown |-> FALSE, calls |-> calls ]
    ELSE IF iClock < Len(t.aClocks)
    THEN IF iFault = iClock + 1
         THEN [ t |-> t, thrown |-> TRUE, calls |-> calls ]
         ELSE With(startClock(t.aClocks[iClock + 1], nCycles),
              LAMBDA r : With(IF r = 0 THEN 1 ELSE r,
              LAMBDA n : With(clocked(t, t.aClocks[iClock + 1]),
              LAMBDA c : ClockLoop(Metered([c EXCEPT !.nCyclesRemain = @ - n], n),
                                   iClock + 1, n, iFault,
                                   Append(calls, <<iClock + 1, nCycles>>)))))
    ELSE ClockLoop(t, 0, 0, iFault, calls)

doBurst_Overcount(t, nCycles, iFault) ==
    IF Len(t.aClocks) = 0
    THEN [ t |-> [t EXCEPT !.nCyclesBurst = nCycles, !.nCyclesRemain = 0],
           ret |-> nCycles + 1, thrown |-> FALSE ]
    ELSE With(ClockLoop([t EXCEPT !.nCyclesBurst = nCycles, !.nCyclesRemain = nCycles],
                        0, nCycles, iFault, <<>>),
         LAMBDA l : [ t |-> l.t, ret |-> l.t.nCyclesBurst - l.t.nCyclesRemain,
                      thrown |-> l.thrown ])

doBurst(t, nCycles, iFault) ==
    IF Len(t.aClocks) = 0
    THEN [ t |-> Metered([t EXCEPT !.nCyclesBurst = nCycles, !.nCyclesRemain = 0],
                         nCycles),
           ret |-> nCycles, thrown |-> FALSE ]
    ELSE With(ClockLoop([t EXCEPT !.nCyclesBurst = nCycles, !.nCyclesRemain = nCycles],
                        0, nCycles, iFault, <<>>),
         LAMBDA l : [ t |-> l.t, ret |-> l.t.nCyclesBurst - l.t.nCyclesRemain,
                      thrown |-> l.thrown ])

\* timer.callBack(): the yield timer calls Time.yield and a device's timer
\* counts; a device's callback may also set its timer ("onArm"), stop the clock
\* ("onStop"), or stop and start it ("onRestart")
callBack(t, iTimer) ==
    With(Logged([t EXCEPT !.aCalls[iTimer] = @ + 1], iTimer),
    LAMBDA c :
      CASE c.aTimers[iTimer].callBack = "onYield" -> yield(c)
        [] c.aTimers[iTimer].callBack = "onArm" -> setTimer(c, iTimer, ArmMs, FALSE).t
        [] c.aTimers[iTimer].callBack = "onStop" -> stop(c).t
        [] c.aTimers[iTimer].callBack = "onRestart" -> start(stop(c).t).t
        [] OTHER -> c)

RECURSIVE TimerLoop(_, _, _)
TimerLoop(t, iTimer, nCycles) ==
    IF iTimer = 0 THEN t
    ELSE IF t.aTimers[iTimer].nCyclesLeft < 0 THEN TimerLoop(t, iTimer - 1, nCycles)
    ELSE IF t.aTimers[iTimer].nCyclesLeft - nCycles > 0
    THEN TimerLoop([t EXCEPT !.aTimers[iTimer].nCyclesLeft = @ - nCycles],
                   iTimer - 1, nCycles)
    ELSE With(callBack([t EXCEPT !.aTimers[iTimer].nCyclesLeft = -1], iTimer),
         LAMBDA c : With(IF c.aTimers[iTimer].msAuto >= 0
                         THEN setTimer(c, iTimer, c.aTimers[iTimer].msAuto, FALSE).t
                         ELSE c,
         LAMBDA s : TimerLoop(s, iTimer - 1, nCycles)))

\* notifyTimers as it would be if it went through the timers from the first
RECURSIVE TimerLoopUp(_, _, _)
TimerLoopUp(t, iTimer, nCycles) ==
    IF iTimer > Len(t.aTimers) THEN t
    ELSE IF t.aTimers[iTimer].nCyclesLeft < 0 THEN TimerLoopUp(t, iTimer + 1, nCycles)
    ELSE IF t.aTimers[iTimer].nCyclesLeft - nCycles > 0
    THEN TimerLoopUp([t EXCEPT !.aTimers[iTimer].nCyclesLeft = @ - nCycles],
                     iTimer + 1, nCycles)
    ELSE With(callBack([t EXCEPT !.aTimers[iTimer].nCyclesLeft = -1], iTimer),
         LAMBDA c : With(IF c.aTimers[iTimer].msAuto >= 0
                         THEN setTimer(c, iTimer, c.aTimers[iTimer].msAuto, FALSE).t
                         ELSE c,
         LAMBDA s : TimerLoopUp(s, iTimer + 1, nCycles)))

notifyTimers_Forward(t, nCycles) ==
    IF nCycles >= 1 THEN TimerLoopUp(t, 1, nCycles) ELSE t

notifyTimers(t, nCycles) ==
    IF nCycles >= 1 THEN TimerLoop(t, Len(t.aTimers), nCycles) ELSE t

\* the do-while of runCycles; a throw leaves it with the state at the throw
RECURSIVE BurstLoop(_, _, _)
BurstLoop(t, fAnimation, iFault) ==
    With(getCyclesPerRun(t, fAnimation, 0),
    LAMBDA g : With(doBurst(g.t, g.ret, iFault),
    LAMBDA b :
      IF b.thrown THEN [ t |-> b.t, thrown |-> TRUE ]
      ELSE With(notifyTimers(endBurst(b.t, b.ret), b.ret),
           LAMBDA n : IF n.fRunning /\ ~n.fYield
                      THEN BurstLoop(n, fAnimation, 0)
                      ELSE [ t |-> n, thrown |-> FALSE ])))

\* startRun, the bursts, the catch, and stopRun
runCycles(t, fAnimation, iFault, fElapsed, mhz) ==
    With(MeterRun([calcCycles(t) EXCEPT !.nCyclesThisRun = 0, !.fYield = FALSE]),
    LAMBDA s : With(BurstLoop(s, fAnimation, iFault),
    LAMBDA l : With(IF l.thrown THEN stop(l.t).t ELSE l.t,
    LAMBDA e : calcSpeed(e, e.nCyclesRun, fElapsed, mhz))))

\* the frame callback proper; run() calls it too when no frames are requested
animate(t, iFault, fElapsed, mhz) ==
    With(IF t.fClockByFrame THEN [t EXCEPT !.idAnimation = 0] ELSE t,
    LAMBDA z :
      IF z.fClockByFrame /\ ~z.fRunning THEN z
      ELSE With(IF z.fClockByFrame
                THEN runCycles(z, TRUE, iFault, fElapsed, mhz) ELSE z,
           LAMBDA c : IF c.fRunning /\ c.fRequestAnimationFrame
                      THEN With(requestAnimationFrame(c),
                           LAMBDA q : [q.t EXCEPT !.idAnimation = q.ret])
                      ELSE c))

run(t, iFault, fElapsed, mhz) ==
    With([t EXCEPT !.idRunTimeout = 0],
    LAMBDA z :
      IF ~z.fRunning THEN z
      ELSE With(runCycles(z, FALSE, iFault, fElapsed, mhz),
           LAMBDA c :
             IF c.fRunning
             THEN With(setTimeout(c, "run"),
                  LAMBDA q : With([q.t EXCEPT !.idRunTimeout = q.ret],
                  LAMBDA r : IF ~r.fRequestAnimationFrame
                             THEN animate(r, 0, fElapsed, mhz) ELSE r))
             ELSE c))

step_NoCountdown(t, nRepeat, iFault) ==
    IF t.fRunning THEN [ t |-> t, ret |-> FALSE, thrown |-> FALSE ]
    ELSE IF nRepeat = 0 /\ t.nStepping = 0
    THEN [ t |-> t, ret |-> TRUE, thrown |-> FALSE ]
    ELSE
      With([t EXCEPT !.nStepping = IF t.nStepping = 0 THEN nRepeat ELSE @],
      LAMBDA s : With(getCyclesPerRun(s, TRUE, 1),
      LAMBDA g : With(doBurst(g.t, g.ret, iFault),
      LAMBDA b :
        IF b.thrown THEN [ t |-> b.t, ret |-> FALSE, thrown |-> TRUE ]
        ELSE With(notifyTimers(endBurst(b.t, b.ret), b.ret),
             LAMBDA n : [ t |-> setTimeout(n, "step").t, ret |-> TRUE,
                          thrown |-> FALSE ]))))

\* thrown: the throw of a clock leaves step() by the exception; idStepTimeout,
\* which nothing reads, is not kept
step(t, nRepeat, iFault) ==
    IF t.fRunning THEN [ t |-> t, ret |-> FALSE, thrown |-> FALSE ]
    ELSE IF nRepeat = 0 /\ t.nStepping = 0
    THEN [ t |-> t, ret |-> TRUE, thrown |-> FALSE ]
    ELSE
      With([t EXCEPT !.nStepping = (IF t.nStepping = 0 THEN nRepeat ELSE @) - 1],
      LAMBDA s : With(getCyclesPerRun(s, TRUE, 1),
      LAMBDA g : With(doBurst(g.t, g.ret, iFault),
      LAMBDA b :
        IF b.thrown THEN [ t |-> b.t, ret |-> FALSE, thrown |-> TRUE ]
        ELSE With(notifyTimers(endBurst(b.t, b.ret), b.ret),
             LAMBDA n : [ t |-> IF n.nStepping # 0 THEN setTimeout(n, "step").t ELSE n,
                          ret |-> TRUE, thrown |-> FALSE ]))))

onRun(t) ==
    IF ~t.fPowered THEN t
    ELSE IF t.fRunning THEN stop(t).t ELSE start(t).t

\* the step button passes no count, which step() takes as 1
onStep(t, iFault) ==
    IF ~t.fPowered \/ t.fRunning THEN t
    ELSE IF t.nStepping # 0 THEN stop(t).t ELSE step(t, 1, iFault).t

\* Machine.onPower: Time.onPower, and CPU.onPower when the machine notifies the
\* CPU (fCPU: it auto-starts or has been powered before)
onPower(t, on, fCPU) ==
    LET p == [t EXCEPT !.fPowered = on]
    IN  IF ~fCPU \/ "cpu" \notin {p.aClocks[i] : i \in 1 .. Len(p.aClocks)} THEN p
        ELSE IF on THEN start(p).t ELSE stop(p).t

\* the devices of a machine register their clocks and timers with its Time
RECURSIVE AddClocks(_, _, _)
AddClocks(t, aClocks, i) ==
    IF i > Len(aClocks) THEN t ELSE AddClocks(addClock(t, aClocks[i]), aClocks, i + 1)

RECURSIVE AddTimers(_, _, _)
AddTimers(t, aAuto, i) ==
    IF i > Len(aAuto) THEN t
    ELSE AddTimers(addTimer(t, "onTimer", aAuto[i]).t, aAuto, i + 1)

Clock(config) == AddTimers(AddClocks(Time(config), config.clocks, 1), config.timers, 1)

\* the clock of the machines whose address space is analysed
ClockConfig ==
    [ cyclesPerSecond |-> 650000, cyclesMinimum |-> 100000, cyclesMaximum |-> 3000000,
      yieldsPerSecond |-> 120, clockByFrame |-> "default",
      requestAnimationFrame |-> "default", clocks |-> <<"cpu">>, timers |-> <<>> ]

----------------------------------------------------------------------------
\* The machines analysed: a configuration and the type of block in each slot

\* arrayBuffer is the machine's 'ArrayBuffer' setting, hostLE the host's byte
\* order (LITTLE_ENDIAN); both only matter to a static bus
Configs ==
    { [ type |-> DYNAMIC, littleEndian |-> le, arrayBuffer |-> TRUE, hostLE |-> TRUE ]
        : le \in BOOLEAN }
    \cup
    { [ type |-> STATIC, littleEndian |-> le, arrayBuffer |-> FALSE, hostLE |-> TRUE ]
        : le \in BOOLEAN }
    \cup
    { [ type |-> STATIC, littleEndian |-> le, arrayBuffer |-> TRUE, hostLE |-> h ]
        : le \in BOOLEAN, h \in BOOLEAN }

\* memory maps in address order: unmapped space, then read-only blocks, then
\* at most one read-write block
Layouts ==
    { lay \in [Slots -> {NONE, READONLY, READWRITE}] :
        /\ Cardinality({i \in Slots : lay[i] = READWRITE}) <= 1
        /\ \A i \in Slots, j \in Slots : i < j => lay[i] <= lay[j] }

\* the addresses trap requests are made for
TrapAddrs == {i * blockSize : i \in Slots}

RECURSIVE Install(_, _, _, _)
Install(c, st, lay, i) ==
    IF i >= blockTotal THEN st
    ELSE IF lay[i] = NONE THEN Install(c, st, lay, i + 1)
    ELSE LET r == addBlocks(c, st.blocks, st.mem, i * blockSize, blockSize, lay[i])
         IN  Install(c, [st EXCEPT !.blocks = r.blocks, !.mem = r.mem], lay, i + 1)

\* Machine.initDevices builds the devices of the configuration
Machine(c, lay) == Install(c, Bus(c), lay, 0)

Init ==
    \E c \in Configs, lay \in Layouts :
        LET st == Machine(c, lay)
        IN  /\ cfg = c
            /\ bus = st.bus
            /\ blocks = st.blocks
            /\ mem = st.mem
            /\ fPowered = FALSE
            /\ time = Clock(ClockConfig)

----------------------------------------------------------------------------
\* Operations

\* the slots Bus.loadState takes a saved block state for, in slot order
PersistentSlots ==
    SelectSeq([i \in 1 .. blockTotal |-> i - 1],
              LAMBDA i : Persistent(cfg, mem[blocks[i]]))

\* a block id no block of the machine has
ForeignId == blockTotal + 1

\* saved machine states: per persistent slot the block's id (or a foreign one),
\* a dirty flag and blockSize values
SavedStates ==
    { state \in [1 .. Len(PersistentSlots) ->
                    [ idDevice : 0 .. ForeignId, fDirty : BOOLEAN,
                      values : [1 .. blockSize -> DataVals] ]] :
        \A k \in 1 .. Len(PersistentSlots) :
            state[k].idDevice \in {blocks[PersistentSlots[k]], ForeignId} }

\* Machine.initDevices with autoSave: the saved state is loaded, then power
LoadState(state) ==
    /\ ~fPowered
    /\ mem' = loadState(cfg, blocks, mem, state).m
    /\ fPowered' = TRUE
    /\ UNCHANGED <<cfg, bus, blocks, time>>

\* Machine.initDevices without saved state
Power ==
    /\ ~fPowered
    /\ fPowered' = TRUE
    /\ UNCHANGED <<cfg, bus, blocks, mem, time>>

\* a read changes nothing; its value and trap calls are BusReadData(...)
ReadData(addr) ==
    /\ fPowered
    /\ BusReadData(bus, blocks, mem, addr).ret \in 0 .. dataLimit
    /\ UNCHANGED vars

WriteData(addr, value) ==
    /\ fPowered
    /\ mem' = BusWriteData(bus, blocks, mem, addr, value).m
    /\ UNCHANGED <<cfg, bus, blocks, fPowered, time>>

ReadPair(addr) ==
    /\ fPowered
    /\ BusReadPair(bus, blocks, mem, addr).ret \in 0 .. pairLimit
    /\ UNCHANGED vars

WritePair(addr, value) ==
    /\ fPowered
    /\ mem' = BusWritePair(bus, blocks, mem, addr, value).m
    /\ UNCHANGED <<cfg, bus, blocks, fPowered, time>>

\* the trap requests outstanding on the Bus
Requests == bus.nTraps - cfg.type

TrapRead(addr, func) ==
    /\ fPowered
    /\ Requests < MaxTraps
    /\ LET r == BusTrapRead(cfg, bus, blocks, mem, addr, func)
       IN  mem' = r.mem /\ bus' = r.bus
    /\ UNCHANGED <<cfg, blocks, fPowered, time>>

TrapWrite(addr, func) ==
    /\ fPowered
    /\ Requests < MaxTraps
    /\ LET r == BusTrapWrite(cfg, bus, blocks, mem, addr, func)
       IN  mem' = r.mem /\ bus' = r.bus
    /\ UNCHANGED <<cfg, blocks, fPowered, time>>

UntrapRead(addr, func) ==
    /\ fPowered
    /\ LET r == BusUntrapRead(cfg, bus, blocks, mem, addr, func)
       IN  mem' = r.mem /\ bus' = r.bus
    /\ UNCHANGED <<cfg, blocks, fPowered, time>>

UntrapWrite(addr, func) ==
    /\ fPowered
    /\ LET r == BusUntrapWrite(cfg, bus, blocks, mem, addr, func)
       IN  mem' = r.mem /\ bus' = r.bus
    /\ UNCHANGED <<cfg, blocks, fPowered, time>>

\* blocks[addr >>> blockShift].isDirty()
IsDirty(addr) ==
    /\ fPowered
    /\ mem' = [mem EXCEPT ![BlockOf(blocks, addr)] = isDirty(mem[BlockOf(blocks, addr)]).b]
    /\ UNCHANGED <<cfg, bus, blocks, fPowered, time>>

CleanBlocks(addr, size) ==
    /\ fPowered
    /\ mem' = cleanBlocks(blocks, mem, addr, size).m
    /\ UNCHANGED <<cfg, bus, blocks, fPowered, time>>

\* accesses, trap requests and dirty queries on a powered machine
Access ==
    \/ \E addr \in Addrs : ReadData(addr)
    \/ \E addr \in Addrs, value \in DataVals : WriteData(addr, value)
    \/ \E addr \in Addrs : ReadPair(addr)
    \/ \E addr \in Addrs, value \in PairVals : WritePair(addr, value)
    \/ \E addr \in TrapAddrs : IsDirty(addr)
    \/ \E addr \in TrapAddrs, size \in {blockSize, addrTotal} : CleanBlocks(addr, size)

Trapping ==
    \/ \E addr \in TrapAddrs, func \in Funcs : TrapRead(addr, func)
    \/ \E addr \in TrapAddrs, func \in Funcs : TrapWrite(addr, func)
    \/ \E addr \in TrapAddrs, func \in Funcs : UntrapRead(addr, func)
    \/ \E addr \in TrapAddrs, func \in Funcs : UntrapWrite(addr, func)

\* a machine without saved state
Next ==
    \/ Power
    \/ Access
    \/ Trapping

Spec == Init /\ [][Next]_vars

\* a machine that restores saved state when it is powered, and is then accessed
NextLoad ==
    \/ (~fPowered /\ \E state \in SavedStates : LoadState(state))
    \/ Power
    \/ Access

SpecLoad == Init /\ [][NextLoad]_vars

----------------------------------------------------------------------------
\* Vocabulary of the properties

\* the Memory object that owns an address
Blk(addr) == mem[BlockOf(blocks, addr)]

\* what values[] of the owning block holds for an address
StoredAt(m, addr) == m[BlockOf(blocks, addr)].values[OffsetOf(addr) + 1]

\* values tried in round trips, besides the values the machine is driven with
RoundTripVals == DataVals \cup {1, 127, 128}

\* the addresses of a block, and the pair-aligned ones
AddrsOf(id) == {a \in Addrs : BlockOf(blocks, a) = id}

EvenAddrs == {a \in Addrs : BitAnd(a, 1) = 0}

----------------------------------------------------------------------------
\* C1: on a READWRITE block, writeData(addr, v) followed by readData(addr)
\* returns v, in every state the machine reaches through reads, writes, pair
\* writes, trap requests and dirty queries; and the write leaves what every
\* other address reads as unchanged.
C1_RoundTrip ==
    fPowered =>
        \A addr \in Addrs, v \in RoundTripVals :
            Blk(addr).type = READWRITE =>
                LET m2 == BusWriteData(bus, blocks, mem, addr, v).m
                IN  /\ BusReadData(bus, blocks, m2, addr).ret = v
                    /\ \A o \in Addrs \ {addr} :
                          BusReadData(bus, blocks, m2, o).ret
                              = BusReadData(bus, blocks, mem, o).ret

\* a READWRITE block that was written (it is dirty and holds two different
\* values) while its reads are trapped
C1_Witness ==
    /\ fPowered
    /\ \E addr \in EvenAddrs :
          /\ Blk(addr).type = READWRITE
          /\ Blk(addr).fDirty
          /\ Blk(addr).nReadTraps > 0
          /\ StoredAt(mem, addr) = 0
          /\ StoredAt(mem, addr + 1) = 255

----------------------------------------------------------------------------
----------------------------------------------------------------------------
\* C3 (as claimed): after writeData to a READWRITE block, on a static or a
\* dynamic bus, trapped or not, the block's next isDirty() returns true.
C3_WriteSetsDirty ==
    fPowered =>
        \A addr \in Addrs, v \in DataVals :
            Blk(addr).type = READWRITE =>
                isDirty(BusWriteData(bus, blocks, mem, addr, v)
                            .m[BlockOf(blocks, addr)]).ret

----------------------------------------------------------------------------
\* C4 (as claimed): after writePair at a pair-aligned address of a clean
\* READWRITE block, the block's next isDirty() returns true.
C4_WritePairSetsDirty ==
    fPowered =>
        \A addr \in EvenAddrs, v \in PairVals :
            (Blk(addr).type = READWRITE /\ ~Blk(addr).fDirty) =>
                isDirty(BusWritePair(bus, blocks, mem, addr, v)
                            .m[BlockOf(blocks, addr)]).ret

----------------------------------------------------------------------------
----------------------------------------------------------------------------
\* Vocabulary of the trap properties

\* the one callback invocation a trapped single-unit access of addr makes
Invocation(func, addr, value) ==
    << [ func |-> func,
         base |-> IF Blk(addr).type = NONE THEN UNDEFINED
                  ELSE Shr(addr, blockShift) * blockSize,
         offset |-> OffsetOf(addr),
         value |-> value,
         stored |-> StoredAt(mem, addr) ] >>

\* what a single-unit read of addr yields on the direct path
Underlying(addr) ==
    IF Blk(addr).type = NONE THEN dataLimit ELSE StoredAt(mem, addr)

\* the callbacks a read (a write) of addr invokes in Bus state st = [bus, mem]
ReadCalls(st, addr) ==
    LET log == BusReadData(st.bus, blocks, st.mem, addr).log
    IN  {log[k].func : k \in 1 .. Len(log)}

WriteCalls(st, addr) ==
    LET log == BusWriteData(st.bus, blocks, st.mem, addr, 0).log
    IN  {log[k].func : k \in 1 .. Len(log)}

\* the same block with n more (fewer) trap requests, as the Bus leaves it
SameBut(m, id, field, n) ==
    IF field = "nReadTraps"
    THEN [m EXCEPT ![id].nReadTraps = n]
    ELSE [m EXCEPT ![id].nWriteTraps = n]

----------------------------------------------------------------------------
\* C6: trapRead/trapWrite on a block without a hook installs the callback and
\* returns true; with the same callback installed it returns true and only
\* adds one to the reference count; with another callback installed it returns
\* false and leaves the blocks and the Bus (its trap counter) as they were.
\* Each success adds one to the Bus trap counter.
C6_TrapInstall ==
    fPowered =>
        \A addr \in Addrs, func \in Funcs :
            LET id == BlockOf(blocks, addr)
                b == mem[id]
                r == BusTrapRead(cfg, bus, blocks, mem, addr, func)
                w == BusTrapWrite(cfg, bus, blocks, mem, addr, func)
            IN  /\ b.nReadTraps = 0 =>
                      /\ r.ret
                      /\ r.mem[id].nReadTraps = 1
                      /\ r.mem[id].readTrap = func
                      /\ ReadCalls(r, addr) = {func}
                      /\ r.bus.nTraps = bus.nTraps + 1
                      /\ \A o \in DOMAIN mem \ {id} : r.mem[o] = mem[o]
                /\ (b.nReadTraps > 0 /\ b.readTrap = func) =>
                      /\ r.ret
                      /\ r.mem = SameBut(mem, id, "nReadTraps", b.nReadTraps + 1)
                      /\ r.bus.nTraps = bus.nTraps + 1
                /\ (b.nReadTraps > 0 /\ b.readTrap # func) =>
                      /\ ~r.ret
                      /\ r.mem = mem
                      /\ r.bus = bus
                /\ b.nWriteTraps = 0 =>
                      /\ w.ret
                      /\ w.mem[id].nWriteTraps = 1
                      /\ w.mem[id].writeTrap = func
                      /\ WriteCalls(w, addr) = {func}
                      /\ w.bus.nTraps = bus.nTraps + 1
                      /\ \A o \in DOMAIN mem \ {id} : w.mem[o] = mem[o]
                /\ (b.nWriteTraps > 0 /\ b.writeTrap = func) =>
                      /\ w.ret
                      /\ w.mem = SameBut(mem, id, "nWriteTraps", b.nWriteTraps + 1)
                      /\ w.bus.nTraps = bus.nTraps + 1
                /\ (b.nWriteTraps > 0 /\ b.writeTrap # func) =>
                      /\ ~w.ret
                      /\ w.mem = mem
                      /\ w.bus = bus

\* one block holds a twice-requested read hook: a request with the same
\* callback has succeeded, one with the other callback is refused
C6_Witness ==
    /\ fPowered
    /\ \E addr \in Addrs :
          /\ Blk(addr).nReadTraps = 2
          /\ Blk(addr).readTrap = "f"
          /\ ~BusTrapRead(cfg, bus, blocks, mem, addr, "g").ret

----------------------------------------------------------------------------
\* C7: trap nesting. On a block without a hook, n trapRead(a, f) calls all
\* succeed; after any m < n untrapRead(a, f) calls reads of the block still
\* invoke f; the n-th removes the hook, reads invoke nothing, and one more
\* untrapRead(a, f) returns false. A block that holds f with k requests, however
\* the trap and untrap calls before were interleaved, unwinds in the same way
\* in k calls. The same for trapWrite/untrapWrite.

\* most trap requests stacked on a block in the nesting property
NestDepth == 2

RECURSIVE TrapTimes(_, _, _, _, _)
TrapTimes(dir, st, addr, func, n) ==
    IF n = 0 THEN st
    ELSE LET r == IF dir = "read"
                  THEN BusTrapRead(cfg, st.bus, blocks, st.mem, addr, func)
                  ELSE BusTrapWrite(cfg, st.bus, blocks, st.mem, addr, func)
         IN  TrapTimes(dir, [bus |-> r.bus, mem |-> r.mem, ok |-> st.ok /\ r.ret],
                       addr, func, n - 1)

\* the accesses of addr's block in st invoke exactly the callbacks in calls
Invokes(dir, st, addr, calls) ==
    \A a \in AddrsOf(BlockOf(blocks, addr)) :
        IF dir = "read" THEN ReadCalls(st, a) = calls
        ELSE WriteCalls(st, a) = calls

\* with left requests for func outstanding in st: the hook is in place until
\* the last of them is withdrawn, and then a further untrap is refused
RECURSIVE Unwinds(_, _, _, _, _)
Unwinds(dir, st, addr, func, left) ==
    LET r == IF dir = "read"
             THEN BusUntrapRead(cfg, st.bus, blocks, st.mem, addr, func)
             ELSE BusUntrapWrite(cfg, st.bus, blocks, st.mem, addr, func)
    IN  IF left = 0
        THEN Invokes(dir, st, addr, {}) /\ ~r.ret
        ELSE /\ Invokes(dir, st, addr, {func})
             /\ r.ret
             /\ Unwinds(dir, [bus |-> r.bus, mem |-> r.mem], addr, func, left - 1)

NestingHolds(dir, addr, func, k) ==
    LET s0 == [bus |-> bus, mem |-> mem, ok |-> TRUE]
    IN  IF k > 0 THEN Unwinds(dir, s0, addr, func, k)
        ELSE \A n \in 1 .. NestDepth :
                LET s1 == TrapTimes(dir, s0, addr, func, n)
                IN  s1.ok /\ Unwinds(dir, s1, addr, func, n)

C7_TrapNesting ==
    fPowered =>
        \A addr \in TrapAddrs, func \in Funcs :
            /\ (Blk(addr).nReadTraps = 0 \/ Blk(addr).readTrap = func) =>
                  NestingHolds("read", addr, func, Blk(addr).nReadTraps)
            /\ (Blk(addr).nWriteTraps = 0 \/ Blk(addr).writeTrap = func) =>
                  NestingHolds("write", addr, func, Blk(addr).nWriteTraps)

\* a write hook requested twice on a block that has been written through it
C7_Witness ==
    /\ fPowered
    /\ \E addr \in Addrs :
          /\ Blk(addr).nWriteTraps = 2
          /\ Blk(addr).type = READWRITE
          /\ Blk(addr).writeDataOrig = "writeValue"

----------------------------------------------------------------------------
\* C8: a trapped read invokes the callback once, after the read, with the
\* block's base address, the offset and the value read, and returns that
\* value; a trapped write invokes the callback once with the value about to be
\* written while values[offset] still holds the old value, and then commits
\* the write.
C8_TrapOrdering ==
    fPowered =>
        \A addr \in Addrs :
            /\ Blk(addr).nReadTraps > 0 =>
                  LET r == BusReadData(bus, blocks, mem, addr)
                  IN  /\ r.ret = Underlying(addr)
                      /\ r.log = Invocation(Blk(addr).readTrap, addr, Underlying(addr))
            /\ Blk(addr).nWriteTraps > 0 =>
                  \A v \in DataVals :
                      LET w == BusWriteData(bus, blocks, mem, addr, v)
                      IN  /\ w.log = Invocation(Blk(addr).writeTrap, addr, v)
                          /\ Blk(addr).type = READWRITE => StoredAt(w.m, addr) = v

\* a READWRITE block with a write hook, holding a value a write will replace
C8_Witness ==
    /\ fPowered
    /\ \E addr \in Addrs :
          /\ Blk(addr).type = READWRITE
          /\ Blk(addr).nWriteTraps > 0
          /\ Blk(addr).fDirty
          /\ StoredAt(mem, addr) = 0

----------------------------------------------------------------------------
\* C9: untrapRead/untrapWrite with no hook installed, or with a callback other
\* than the installed one, returns false and changes nothing: the hook, its
\* reference count, the block's dispatch and the Bus trap counter stay.
C9_UntrapRefused ==
    fPowered =>
        \A addr \in Addrs, func \in Funcs :
            LET b == Blk(addr)
                r == BusUntrapRead(cfg, bus, blocks, mem, addr, func)
                w == BusUntrapWrite(cfg, bus, blocks, mem, addr, func)
            IN  /\ (b.nReadTraps = 0 \/ b.readTrap # func) =>
                      (~r.ret /\ r.mem = mem /\ r.bus = bus)
                /\ (b.nWriteTraps = 0 \/ b.writeTrap # func) =>
                      (~w.ret /\ w.mem = mem /\ w.bus = bus)

\* a block with read hook f and write hook g: untrapRead(g) and untrapWrite(f)
\* are the mismatched requests
C9_Witness ==
    /\ fPowered
    /\ \E addr \in Addrs :
          /\ Blk(addr).nReadTraps = 1 /\ Blk(addr).readTrap = "f"
          /\ Blk(addr).nWriteTraps = 1 /\ Blk(addr).writeTrap = "g"

----------------------------------------------------------------------------
\* C10: traps are pure observers. Plain(b) is block b as it is with its hooks
\* taken off. In every reachable state each operation returns the same on the
\* machine and on its plain image, and leaves plain images equal; so along any
\* sequence of operations, with traps installed and removed anywhere, the
\* values read, the values stored and the dirty results are those of the
\* machine never trapped.
Plain(b) ==
    [b EXCEPT
        !.readData = IF b.nReadTraps > 0 THEN b.readDataOrig ELSE b.readData,
        !.readPair = IF b.nReadTraps > 0 THEN b.readPairOrig ELSE b.readPair,
        !.writeData = IF b.nWriteTraps > 0 THEN b.writeDataOrig ELSE b.writeData,
        !.writePair = IF b.nWriteTraps > 0 THEN b.writePairOrig ELSE b.writePair,
        !.nReadTraps = 0, !.nWriteTraps = 0,
        !.readTrap = NULL, !.writeTrap = NULL,
        !.readDataOrig = NULL, !.readPairOrig = NULL,
        !.writeDataOrig = NULL, !.writePairOrig = NULL]

PlainMem(m) == [id \in DOMAIN m |-> Plain(m[id])]

C10_TrapsObserve ==
    fPowered =>
        LET pm == PlainMem(mem)
        IN  /\ \A id \in DOMAIN pm :
                  pm[id].readData \in {"readNone", "readValue"}
                  /\ pm[id].writeData \in {"writeNone", "writeValue", "writeValueDirty"}
            /\ \A addr \in Addrs :
                  /\ BusReadData(bus, blocks, mem, addr).ret
                        = BusReadData(bus, blocks, pm, addr).ret
                  /\ BusReadPair(bus, blocks, mem, addr).ret
                        = BusReadPair(bus, blocks, pm, addr).ret
                  /\ \A v \in DataVals :
                        PlainMem(BusWriteData(bus, blocks, mem, addr, v).m)
                            = BusWriteData(bus, blocks, pm, addr, v).m
                  /\ \A v \in PairVals :
                        PlainMem(BusWritePair(bus, blocks, mem, addr, v).m)
                            = BusWritePair(bus, blocks, pm, addr, v).m
            /\ \A addr \in TrapAddrs :
                  /\ isDirty(Blk(addr)).ret = isDirty(Plain(Blk(addr))).ret
                  /\ Plain(isDirty(Blk(addr)).b) = isDirty(Plain(Blk(addr))).b
                  /\ \A func \in Funcs :
                        /\ PlainMem(BusTrapRead(cfg, bus, blocks, mem, addr, func).mem) = pm
                        /\ PlainMem(BusTrapWrite(cfg, bus, blocks, mem, addr, func).mem) = pm
                        /\ PlainMem(BusUntrapRead(cfg, bus, blocks, mem, addr, func).mem) = pm
                        /\ PlainMem(BusUntrapWrite(cfg, bus, blocks, mem, addr, func).mem) = pm

\* a READWRITE block with a read and a write hook, written and then queried
\* clean while trapped (the dirty handler is re-armed behind the hook)
C10_Witness ==
    /\ fPowered
    /\ \E addr \in Addrs :
          /\ Blk(addr).type = READWRITE
          /\ Blk(addr).nReadTraps > 0
          /\ Blk(addr).nWriteTraps > 0
          /\ ~Blk(addr).fDirty
          /\ StoredAt(mem, addr) # StoredAt(mem, BitAnd(addr + 1, blockLimit)
                                                 + Shr(addr, blockShift) * blockSize)
          /\ Blk(addr).writeDataOrig = "writeValueDirty"

----------------------------------------------------------------------------
\* Bus.addBlocks with a preallocated block, and the ROM device that uses it

\* Array.prototype.slice(begin, end) on an array of numbers
Slice(values, begin, end) ==
    LET last == IF end > Len(values) THEN Len(values) ELSE end
    IN  IF begin >= last THEN <<>> ELSE SubSeq(values, begin + 1, last)

\* addBlocks(addr, size, type, block): [blocks, mem, ret]
RECURSIVE AddLoopWith(_, _, _, _, _, _, _, _, _)
AddLoopWith(c, bl, m, addrNext, sizeLeft, offset, type, block, iBlock) ==
    IF sizeLeft > 0 /\ iBlock < blockTotal
    THEN LET addrBlock == iBlock * blockSize
             sizeBlock0 == blockSize - (addrNext - addrBlock)
             sizeBlock == IF sizeBlock0 > sizeLeft THEN sizeLeft ELSE sizeBlock0
             values == IF block.values # NoValues
                       THEN Slice(block.values, offset, offset + sizeBlock)
                       ELSE NoValues
             failed == [ blocks |-> bl, mem |-> m, ret |-> FALSE ]
         IN  IF addrNext # addrBlock \/ sizeBlock # blockSize THEN failed
             ELSE IF m[bl[iBlock]].type # NONE THEN failed
             ELSE IF block.size = blockSize
             THEN AddLoopWith(c, [bl EXCEPT ![iBlock] = block.idDevice],
                              (block.idDevice :> block) @@ m,
                              addrBlock + blockSize, sizeLeft - sizeBlock,
                              offset + sizeBlock, type, block, iBlock + 1)
             ELSE IF block.values # NoValues /\ Len(values) # sizeBlock THEN failed
             ELSE AddLoopWith(c, [bl EXCEPT ![iBlock] = NewId(iBlock)],
                              (NewId(iBlock) :>
                                  Memory(NewId(iBlock), c, type, addrNext, sizeBlock,
                                         values)) @@ m,
                              addrBlock + blockSize, sizeLeft - sizeBlock,
                              offset + sizeBlock, type, block, iBlock + 1)
    ELSE [ blocks |-> bl, mem |-> m, ret |-> TRUE ]

addBlocksWith(c, bl, m, addr, size, type, block) ==
    AddLoopWith(c, bl, m, addr, size, 0, type, block, Shr(addr, blockShift))

\* identity of the ROM device configured at a slot
RomId(iBlock) == blockTotal + 2 + iBlock

\* new ROM(...): a READONLY Memory with the configured values, handed to addBlocks
ROM(c, bl, m, addr, size, values) ==
    addBlocksWith(c, bl, m, addr, size, READONLY,
                  Memory(RomId(Shr(addr, blockShift)), c, READONLY, addr, size, values))

----------------------------------------------------------------------------
\* Machines with any memory map: each slot unmapped, a one-block ROM or RAM,
\* or one ROM over the whole address space

\* what the ROM configured at a slot holds, and the ROM over the whole space
RomImage(iBlock) == [k \in 1 .. blockSize |-> (iBlock * blockSize + k) * 17 % 256]

WholeImage == [k \in 1 .. addrTotal |-> (k * 17) % 256]

PairLayouts == [Slots -> {NONE, READONLY, READWRITE}]

RECURSIVE InstallMap(_, _, _, _)
InstallMap(c, st, lay, i) ==
    IF i >= blockTotal THEN st
    ELSE IF lay[i] = NONE THEN InstallMap(c, st, lay, i + 1)
    ELSE LET r == IF lay[i] = READONLY
                  THEN ROM(c, st.blocks, st.mem, i * blockSize, blockSize, RomImage(i))
                  ELSE addBlocks(c, st.blocks, st.mem, i * blockSize, blockSize, lay[i])
         IN  InstallMap(c, [st EXCEPT !.blocks = r.blocks, !.mem = r.mem], lay, i + 1)

InitPair ==
    \E c \in Configs :
        \E st \in {InstallMap(c, Bus(c), lay, 0) : lay \in PairLayouts}
                  \cup {[Bus(c) EXCEPT
                            !.blocks = ROM(c, Bus(c).blocks, Bus(c).mem, 0, addrTotal,
                                           WholeImage).blocks,
                            !.mem = ROM(c, Bus(c).blocks, Bus(c).mem, 0, addrTotal,
                                        WholeImage).mem]} :
            /\ cfg = c
            /\ bus = st.bus
            /\ blocks = st.blocks
            /\ mem = st.mem
            /\ fPowered = FALSE
            /\ time = Clock(ClockConfig)

NextPair ==
    \/ Power
    \/ Access

SpecPair == InitPair /\ [][NextPair]_vars

----------------------------------------------------------------------------
\* C11: pair composition. For every even address, Bus.readPair(addr) is
\* readData(addr) + readData(addr + 1) * 2^dataWidth on a little-endian Bus and
\* readData(addr + 1) + readData(addr) * 2^dataWidth on a big-endian one, for
\* NONE, READONLY and READWRITE blocks; and on a READWRITE block
\* writePair(addr, v) followed by readPair(addr) returns v.

\* pair values tried in round trips
PairTripVals == PairVals \cup {1, 256, 4660, 32768, 43981}

C11_PairComposition ==
    fPowered =>
        \A addr \in EvenAddrs :
            LET first == BusReadData(bus, blocks, mem, addr).ret
                second == BusReadData(bus, blocks, mem, addr + 1).ret
            IN  /\ BusReadPair(bus, blocks, mem, addr).ret =
                      IF cfg.littleEndian THEN first + second * (dataLimit + 1)
                      ELSE second + first * (dataLimit + 1)
                /\ Blk(addr).type = READWRITE =>
                      \A v \in PairTripVals :
                          BusReadPair(bus, blocks,
                                      BusWritePair(bus, blocks, mem, addr, v).m,
                                      addr).ret = v

\* a written READWRITE block whose two units differ, on a static Bus with
\* buffers whose byte order is not the host's, next to a ROM
C11_Witness ==
    /\ fPowered
    /\ cfg.type = STATIC /\ cfg.arrayBuffer /\ cfg.littleEndian # cfg.hostLE
    /\ \E addr \in EvenAddrs :
          /\ Blk(addr).type = READWRITE
          /\ Blk(addr).fDirty
          /\ StoredAt(mem, addr) # StoredAt(mem, addr + 1)
    /\ \E addr \in EvenAddrs :
          /\ Blk(addr).type = READONLY
          /\ StoredAt(mem, addr) # StoredAt(mem, addr + 1)

----------------------------------------------------------------------------
\* C12: unaligned pair fallback. For every odd address, Bus.readPair is the two
\* single-unit reads at addr and at addr + 1 wrapped into the address space,
\* combined by the Bus byte order, and Bus.writePair is the two single-unit
\* writes of the corresponding parts at addr and then at the wrapped addr + 1;
\* with every block trapped, exactly those two accesses are seen. This holds
\* across a block boundary, between blocks of different types, and from the
\* last address to address 0.

OddAddrs == Addrs \ EvenAddrs

\* the machine with callback f on reads and writes of every block
RECURSIVE TrapAll(_, _)
TrapAll(st, i) ==
    IF i >= blockTotal THEN st
    ELSE LET r == BusTrapRead(cfg, st.bus, blocks, st.mem, i * blockSize, "f")
             w == BusTrapWrite(cfg, r.bus, blocks, r.mem, i * blockSize, "f")
         IN  TrapAll([bus |-> w.bus, mem |-> w.mem], i + 1)

\* the part of pair value v written to the first and to the second address
FirstPart(v) ==
    IF cfg.littleEndian THEN v % (dataLimit + 1) ELSE v \div (dataLimit + 1)

SecondPart(v) ==
    IF cfg.littleEndian THEN v \div (dataLimit + 1) ELSE v % (dataLimit + 1)

\* in Bus state st, readPair and writePair at odd addr are the two unit accesses
UnalignedIsTwoUnits(st, addr) ==
    LET next == (addr + 1) % addrTotal
        r1 == BusReadData(st.bus, blocks, st.mem, addr)
        r2 == BusReadData(st.bus, blocks, st.mem, next)
        rp == BusReadPair(st.bus, blocks, st.mem, addr)
    IN  /\ rp.ret = IF cfg.littleEndian
                    THEN r1.ret + r2.ret * (dataLimit + 1)
                    ELSE r2.ret + r1.ret * (dataLimit + 1)
        /\ Len(rp.log) = Len(r1.log) + Len(r2.log)
        /\ {rp.log[k] : k \in 1 .. Len(rp.log)}
              = {r1.log[k] : k \in 1 .. Len(r1.log)}
                \cup {r2.log[k] : k \in 1 .. Len(r2.log)}
        /\ \A v \in PairTripVals :
              LET w1 == BusWriteData(st.bus, blocks, st.mem, addr, FirstPart(v))
                  w2 == BusWriteData(st.bus, blocks, w1.m, next, SecondPart(v))
                  wp == BusWritePair(st.bus, blocks, st.mem, addr, v)
              IN  wp.m = w2.m /\ wp.log = w1.log \o w2.log

C12_UnalignedPair ==
    fPowered =>
        \A addr \in OddAddrs :
            /\ UnalignedIsTwoUnits([bus |-> bus, mem |-> mem], addr)
            /\ UnalignedIsTwoUnits(TrapAll([bus |-> bus, mem |-> mem], 0), addr)
            /\ Len(BusReadPair(TrapAll([bus |-> bus, mem |-> mem], 0).bus, blocks,
                               TrapAll([bus |-> bus, mem |-> mem], 0).mem,
                               addr).log) = 2

\* two written READWRITE blocks: the pair at the last address wraps to address
\* 0 in the other block, and the two units differ
C12_Witness ==
    /\ fPowered
    /\ Blk(addrLimit).type = READWRITE /\ Blk(addrLimit).fDirty
    /\ Blk(0).type = READWRITE /\ Blk(0).fDirty
    /\ Blk(0) # Blk(addrLimit)
    /\ StoredAt(mem, addrLimit) # StoredAt(mem, 0)

----------------------------------------------------------------------------
\* The Bus while the devices of a machine register their blocks

\* the type argument of addBlocks
Types == {NONE, READONLY, READWRITE}

\* the size argument of addBlocks: up to the whole address space
Sizes == 1 .. addrTotal

\* what a ROM of size units configured at addr holds
ImageAt(addr, size) == [k \in 1 .. size |-> ((addr + k) * 17) % 256]

InitAdd ==
    \E c \in Configs :
        /\ cfg = c
        /\ bus = Bus(c).bus
        /\ blocks = Bus(c).blocks
        /\ mem = Bus(c).mem
        /\ fPowered = FALSE
        /\ time = Clock(ClockConfig)

\* a device constructor calls bus.addBlocks(addr, size, type)
AddBlocks(addr, size, type) ==
    /\ ~fPowered
    /\ blocks' = addBlocks(cfg, blocks, mem, addr, size, type).blocks
    /\ mem' = addBlocks(cfg, blocks, mem, addr, size, type).mem
    /\ UNCHANGED <<cfg, bus, fPowered, time>>

\* new ROM(...) with addr, size and values in its config
AddRom(addr, size) ==
    /\ ~fPowered
    /\ blocks' = ROM(cfg, blocks, mem, addr, size, ImageAt(addr, size)).blocks
    /\ mem' = ROM(cfg, blocks, mem, addr, size, ImageAt(addr, size)).mem
    /\ UNCHANGED <<cfg, bus, fPowered, time>>

NextAdd ==
    \/ \E addr \in Addrs, size \in Sizes, type \in Types : AddBlocks(addr, size, type)
    \/ \E addr \in Addrs, size \in Sizes : AddRom(addr, size)
    \/ Power
    \/ Access

SpecAdd == InitAdd /\ [][NextAdd]_vars

\* the slots addBlocks(addr, size, ...) is asked to fill
Range(addr, size) ==
    {i \in Slots : i * blockSize < addr + size /\ addr < (i + 1) * blockSize}

----------------------------------------------------------------------------
----------------------------------------------------------------------------
\* C14 (as claimed): addBlocks size rule. With a block-aligned addr over NONE
\* slots inside the address space and a size that is not a multiple of
\* blockSize, addBlocks returns true, fills the slots before the last with
\* full blocks and the last slot with a block of the remaining size, so that
\* the blocks end exactly at addr + size.
C14_PartialFinalAccepted ==
    \A addr \in Addrs, size \in Sizes, type \in {READONLY, READWRITE} :
        ( /\ addr % blockSize = 0
          /\ size % blockSize # 0
          /\ addr + size <= addrTotal
          /\ \A i \in Range(addr, size) : mem[blocks[i]].type = NONE ) =>
            LET r == addBlocks(cfg, blocks, mem, addr, size, type)
                final == Shr(addr + size - 1, blockShift)
            IN  /\ r.ret
                /\ \A i \in Range(addr, size) :
                      /\ r.mem[r.blocks[i]].type = type
                      /\ r.mem[r.blocks[i]].addr = i * blockSize
                      /\ r.mem[r.blocks[i]].size =
                            IF i = final THEN size % blockSize ELSE blockSize

----------------------------------------------------------------------------
\* C15: addBlocks never replaces a real block. For a block-aligned addr inside
\* the address space: over slots that all hold NONE blocks a request of whole
\* blocks returns true and fills every slot of its range; a request that
\* reaches a slot holding a non-NONE block returns false, having replaced the
\* slots of the range before that slot and nothing else. And no step of the
\* machine changes which block a slot holds once that block is not NONE.

\* the first slot of the range that holds a real block (blockTotal if none)
FirstOccupied(addr, size) ==
    LET occ == {i \in Range(addr, size) : mem[blocks[i]].type # NONE}
    IN  IF occ = {} THEN blockTotal ELSE CHOOSE i \in occ : \A j \in occ : i <= j

\* r is what a request leaves when it stops at slot first: the slots of the
\* range before first hold new blocks of the type, everything else is as before
FilledBefore(r, addr, size, type, first) ==
    /\ \A i \in Range(addr, size) :
          i < first =>
              /\ r.mem[r.blocks[i]].type = type
              /\ r.mem[r.blocks[i]].addr = i * blockSize
              /\ r.mem[r.blocks[i]].size = blockSize
    /\ \A i \in Slots :
          (i \notin Range(addr, size) \/ i >= first) =>
              /\ r.blocks[i] = blocks[i]
              /\ r.mem[r.blocks[i]] = mem[blocks[i]]

NoRealBlockReplaced ==
    \A addr \in Addrs, size \in Sizes :
        addr % blockSize = 0 =>
            LET first == FirstOccupied(addr, size)
                q == ROM(cfg, blocks, mem, addr, size, ImageAt(addr, size))
            IN  /\ \A type \in {READONLY, READWRITE} :
                      LET r == addBlocks(cfg, blocks, mem, addr, size, type)
                      IN  /\ (first = blockTotal /\ size % blockSize = 0) =>
                                (r.ret /\ FilledBefore(r, addr, size, type, blockTotal))
                          /\ first < blockTotal =>
                                (~r.ret /\ FilledBefore(r, addr, size, type, first))
                /\ (first = blockTotal /\ size % blockSize = 0) =>
                      (q.ret /\ FilledBefore(q, addr, size, READONLY, blockTotal))
                /\ first < blockTotal =>
                      (~q.ret /\ FilledBefore(q, addr, size, READONLY, first))

RealBlocksStay ==
    \A i \in Slots :
        mem[blocks[i]].type # NONE =>
            /\ blocks'[i] = blocks[i]
            /\ mem'[blocks'[i]].type = mem[blocks[i]].type
            /\ mem'[blocks'[i]].addr = mem[blocks[i]].addr
            /\ mem'[blocks'[i]].size = mem[blocks[i]].size

C15_NeverReplaced == []NoRealBlockReplaced /\ [][RealBlocksStay]_vars

\* a Bus under construction with the placeholder in the first slot and a real
\* block in the last: a request over both fills the first and stops at the last
C15_Witness ==
    /\ ~fPowered
    /\ blocks[0] = NoneId
    /\ mem[blocks[blockTotal - 1]].type = READONLY
    /\ ~addBlocks(cfg, blocks, mem, 0, addrTotal, READWRITE).ret
    /\ addBlocks(cfg, blocks, mem, 0, addrTotal, READWRITE).blocks[0] # NoneId

----------------------------------------------------------------------------
\* C16: address-space invariant. In every state, after construction and after
\* any successful or failed addBlocks calls, the slot array has exactly
\* addrTotal / blockSize entries, every slot holds a block of blockSize units,
\* and address addr is served by slot addr \div blockSize at offset
\* addr % blockSize: a real block there starts at the slot's base address and
\* a read of addr yields the unit at that offset. Right after construction
\* every slot holds a NONE block.
C16_AddressSpace ==
    /\ DOMAIN blocks = 0 .. (addrTotal \div blockSize) - 1
    /\ \A i \in DOMAIN blocks :
          /\ blocks[i] \in DOMAIN mem
          /\ mem[blocks[i]].size = blockSize
          /\ Len(mem[blocks[i]].values) = blockSize
          /\ mem[blocks[i]].type # NONE => mem[blocks[i]].addr = i * blockSize
    /\ \A addr \in Addrs :
          /\ BlockOf(blocks, addr) = blocks[addr \div blockSize]
          /\ OffsetOf(addr) = addr % blockSize
          /\ BusReadData(bus, blocks, mem, addr).ret =
                IF mem[blocks[addr \div blockSize]].type = NONE THEN dataLimit
                ELSE mem[blocks[addr \div blockSize]].values[(addr % blockSize) + 1]
    /\ \A i \in DOMAIN Bus(cfg).blocks :
          Bus(cfg).mem[Bus(cfg).blocks[i]].type = NONE

\* a powered machine whose first slot holds a ROM and whose last slot holds a
\* written READWRITE block, after registrations that succeeded
C16_Witness ==
    /\ fPowered
    /\ blocks[0] = RomId(0)
    /\ mem[blocks[0]].values = ImageAt(0, blockSize)
    /\ mem[blocks[blockTotal - 1]].type = READWRITE
    /\ mem[blocks[blockTotal - 1]].fDirty

----------------------------------------------------------------------------
\* The scheduler under its host: the calls of the Time API, the run and step
\* buttons, power, and the callbacks the window has pending

\* most cycles executed in the lifetime of a machine with a slow clock
MaxCyclesLife == 8

\* most cycles executed in the lifetime of a machine with the 1000 Hz clock
MaxCyclesTimed == 350

\* largest repeat count given to step()
MaxRepeat == 3

\* most setTimeout() callbacks pending at a time
MaxPending == 2

\* speeds (percent of the base speed) the run loop measures at a yield
Speeds == {50, 100}

\* a slow clock (100 cycles per second), driven by frames or by timeouts, with
\* and without frame requests; no clocked device, the CPU, or a device that
\* clocks one cycle per call followed by the CPU
TimeConfigs ==
    { [ cyclesPerSecond |-> 100, cyclesMinimum |-> 100, cyclesMaximum |-> 3000000,
        yieldsPerSecond |-> 30, clockByFrame |-> m[1], requestAnimationFrame |-> m[2],
        clocks |-> aClocks, timers |-> <<>> ]
        : m \in { <<"default", "default">>, <<"false", "default">>, <<"false", "false">> },
          aClocks \in { <<>>, <<"cpu">>, <<"unit", "cpu">> } }

machine == <<cfg, bus, blocks, mem, fPowered>>

\* the address space plays no part in scheduling: an empty dynamic bus
InitMachine ==
    LET c == [ type |-> DYNAMIC, littleEndian |-> TRUE, arrayBuffer |-> TRUE,
               hostLE |-> TRUE ]
    IN  /\ cfg = c
        /\ bus = Bus(c).bus
        /\ blocks = Bus(c).blocks
        /\ mem = Bus(c).mem
        /\ fPowered = FALSE

InitTime ==
    /\ InitMachine
    /\ \E config \in TimeConfigs : time = Clock(config)

\* the handlers may run while the counters stay within the bounds
\* (the steps still to be taken count as executed)
Bounded(t) ==
    /\ t.nCyclesLife + t.nStepping <=
          (IF t.nCyclesPerSecond < 1000 THEN MaxCyclesLife ELSE MaxCyclesTimed)
    /\ Cardinality(DOMAIN t.timeouts) <= MaxPending

\* the clock that throws in a run segment, if any; the run loop catches it
Faults == 0 .. Len(time.aClocks)

Start ==
    /\ time' = start(time).t
    /\ UNCHANGED machine

Stop ==
    /\ time' = stop(time).t
    /\ UNCHANGED machine

Step(nRepeat) ==
    /\ time' = step(time, nRepeat, 0).t
    /\ Bounded(time')
    /\ UNCHANGED machine

OnRun ==
    /\ time' = onRun(time)
    /\ UNCHANGED machine

OnStep ==
    /\ time' = onStep(time, 0)
    /\ Bounded(time')
    /\ UNCHANGED machine

TimePower(on, fCPU) ==
    /\ time' = onPower(time, on, fCPU)
    /\ UNCHANGED machine

\* the window calls a pending callback and forgets it
OnRunTimeout(id, iFault, fElapsed, mhz) ==
    /\ time.timeouts[id] = "run"
    /\ time' = run(clearTimeout(time, id), iFault, fElapsed, mhz)
    /\ Bounded(time')
    /\ UNCHANGED machine

OnStepTimeout(id) ==
    /\ time.timeouts[id] = "step"
    /\ time' = step(clearTimeout(time, id), 0, 0).t
    /\ Bounded(time')
    /\ UNCHANGED machine

OnAnimationFrame(id, iFault, fElapsed, mhz) ==
    /\ time' = animate(cancelAnimationFrame(time, id), iFault, fElapsed, mhz)
    /\ Bounded(time')
    /\ UNCHANGED machine

Calls ==
    \/ Start
    \/ Stop
    \/ \E nRepeat \in 0 .. MaxRepeat : Step(nRepeat)

Buttons ==
    \/ OnRun
    \/ OnStep
    \/ \E on \in BOOLEAN, fCPU \in BOOLEAN : TimePower(on, fCPU)

\* the host keeps pace here: the speed measured at a yield is the target speed
Callbacks ==
    \/ \E id \in DOMAIN time.timeouts, iFault \in Faults :
          OnRunTimeout(id, iFault, TRUE, time.mhzTarget)
    \/ \E id \in DOMAIN time.timeouts : OnStepTimeout(id)
    \/ \E id \in time.frames, iFault \in Faults :
          OnAnimationFrame(id, iFault, TRUE, time.mhzTarget)

NextTime == Calls \/ Buttons \/ Callbacks

SpecTime == InitTime /\ [][NextTime]_vars

Stopped(t) == ~t.fRunning /\ t.nStepping = 0
Running(t) == t.fRunning
Stepping(t) == t.nStepping > 0

\* C17: Running and Stepping never hold together, whatever the host calls and
\* whichever pending callback the window runs; start() returns true exactly
\* from Stopped, then leaving the scheduler Running, and otherwise returns
\* false and changes nothing; stop() returns true exactly from Running or
\* Stepping, then leaving the scheduler Stopped, and otherwise returns false
\* and changes nothing.
C17_StateMachine ==
    /\ ~(Running(time) /\ Stepping(time))
    /\ time.nStepping >= 0
    /\ start(time).ret = Stopped(time)
    /\ start(time).ret => Running(start(time).t) /\ ~Stepping(start(time).t)
    /\ ~start(time).ret => start(time).t = time
    /\ stop(time).ret = (Running(time) \/ Stepping(time))
    /\ Stopped(stop(time).t)
    /\ ~stop(time).ret => stop(time).t = time

C17_Witness ==
    /\ Running(time)
    /\ time.nCyclesLife > 0
    /\ \E id \in DOMAIN time.timeouts : time.timeouts[id] = "step"

\* Stepping a powered machine: the calls, the step button, and the callbacks
\* of a host that keeps pace and whose clocks do not throw
InitStep ==
    /\ InitMachine
    /\ \E config \in TimeConfigs : time = onPower(Clock(config), TRUE, FALSE)

StepCallbacks == \E id \in DOMAIN time.timeouts : OnStepTimeout(id)

RunCallbacks ==
    \/ \E id \in DOMAIN time.timeouts : OnRunTimeout(id, 0, TRUE, time.mhzTarget)
    \/ \E id \in time.frames : OnAnimationFrame(id, 0, TRUE, time.mhzTarget)

NextStep == Calls \/ OnStep \/ StepCallbacks \/ RunCallbacks

\* The window runs every callback it has pending: a step timeout that is
\* pending is eventually called
SpecStep == InitStep /\ [][NextStep]_vars /\ WF_vars(StepCallbacks)

StepTimeouts(t) == {id \in DOMAIN t.timeouts : t.timeouts[id] = "step"}

\* step(nRepeat) called in the state t: one burst of one cycle, nRepeat - 1 steps
\* left, and a step callback pending for them exactly when there are any
StepRequest(t, nRepeat) ==
    LET r == step(t, nRepeat, 0)
    IN  /\ r.ret
        /\ r.t.nCyclesLife = t.nCyclesLife + 1
        /\ ~r.t.fRunning
        /\ r.t.nStepping = nRepeat - 1
        /\ Cardinality(StepTimeouts(r.t)) =
              Cardinality(StepTimeouts(t)) + (IF nRepeat > 1 THEN 1 ELSE 0)

\* what one step of the scheduler does while it is not running: nothing is
\* executed and the steps left stay or are dropped (by stop()), or one burst of
\* one cycle is executed and takes one of the steps left, or is the first of
\* a new request
StepAccounting ==
    ~time.fRunning /\ ~time'.fRunning =>
        \/ /\ time'.nCyclesLife = time.nCyclesLife
           /\ time'.nStepping \in {time.nStepping, 0}
        \/ /\ time'.nCyclesLife = time.nCyclesLife + 1
           /\ time.nStepping > 0 => time'.nStepping = time.nStepping - 1
           /\ time.nStepping = 0 => time'.nStepping \in 0 .. MaxRepeat - 1

\* C18: step(n) with n >= 1 from Stopped executes one burst of one cycle and
\* leaves n - 1 steps to a pending step callback; while the scheduler is not
\* running every call or callback executes at most one burst, of one cycle,
\* and each burst takes one of the steps left, so n bursts are executed in all
\* and the scheduler then is Stopped again; stop() drops the steps left, and
\* the step callbacks still pending then execute nothing; step() while Running
\* returns false and changes nothing.
C18_StepCount ==
    /\ [](/\ Stopped(time) =>
                \A nRepeat \in 1 .. MaxRepeat : StepRequest(time, nRepeat)
          /\ Stepping(time) => StepTimeouts(time) # {}
          /\ Stepping(time) => stop(time).ret /\ Stopped(stop(time).t)
                                  /\ stop(time).t.nCyclesLife = time.nCyclesLife
          /\ Stopped(time) =>
                \A id \in StepTimeouts(time) :
                    step(clearTimeout(time, id), 0, 0).t = clearTimeout(time, id)
          /\ Running(time) =>
                \A nRepeat \in 0 .. MaxRepeat :
                    /\ ~step(time, nRepeat, 0).ret
                    /\ step(time, nRepeat, 0).t = time)
    /\ [][StepAccounting]_vars
    /\ (Stepping(time) ~> Stopped(time))

C18_Witness ==
    /\ Stopped(time)
    /\ time.nCyclesLife = MaxRepeat
    /\ time.nCyclesThisRun = MaxRepeat
    /\ time.timeouts = <<>>

RunTimeouts(t) == {id \in DOMAIN t.timeouts : t.timeouts[id] = "run"}

\* nothing of the run chain is left in t or pending in the window
Cancelled(t) ==
    /\ ~t.fRunning
    /\ t.idRunTimeout = 0
    /\ t.idAnimation = 0
    /\ RunTimeouts(t) = {}
    /\ t.frames = {}

\* the first burst of a run segment in which clock iFault throws: the state
\* runCycles catches the throw in
ThrownBurst(t, fAnimation, iFault) ==
    LET g == getCyclesPerRun([calcCycles(t) EXCEPT !.nCyclesThisRun = 0,
                                                   !.fYield = FALSE],
                             fAnimation, 0)
    IN  doBurst(g.t, g.ret, iFault)

\* C19: stop() called while Running, by the host between bursts or by the run
\* loop on the throw of a clock in the middle of a burst, leaves the scheduler
\* not running with idRunTimeout = idAnimation = 0 and neither a run timeout
\* nor an animation frame pending, and has added to nCyclesLife the cycles the
\* burst in progress had executed; the same holds in every state that is not
\* Running; from Stopped only a step() call executes cycles, so no clock is
\* started again before a start() or step(); nCyclesLife never decreases.
C19_StopFinal ==
    /\ [](/\ Running(time) =>
                /\ stop(time).ret
                /\ Cancelled(stop(time).t)
                /\ stop(time).t.nCyclesLife =
                      time.nCyclesLife + (time.nCyclesBurst - time.nCyclesRemain)
          /\ Running(time) =>
                \A iFault \in 1 .. Len(time.aClocks) :
                    LET b == ThrownBurst(time, time.fClockByFrame, iFault)
                    IN  b.thrown =>
                          /\ b.ret = b.t.nCyclesBurst - b.t.nCyclesRemain
                          /\ Cancelled(stop(b.t).t)
                          /\ stop(b.t).t.nCyclesLife = time.nCyclesLife + b.ret
          /\ ~Running(time) => Cancelled(time))
    /\ [][/\ time'.nCyclesLife >= time.nCyclesLife
          /\ Stopped(time) /\ time'.nCyclesLife # time.nCyclesLife =>
                \E nRepeat \in 1 .. MaxRepeat : time' = step(time, nRepeat, 0).t]_vars

C19_Witness ==
    /\ time.fPowered
    /\ Stopped(time)
    /\ ~time.fClockByFrame
    /\ Len(time.aClocks) = 2
    /\ time.nCyclesLife = 1
    /\ time.mhzCurrent = 0

----------------------------------------------------------------------------
\* Timer cadence: a 1000 Hz clock, driven by timeouts or by frames, with a CPU
\* and a device timer of 100 ms; the speed the run loop measures at a yield is
\* one of Speeds

TimerConfigs ==
    { [ cyclesPerSecond |-> 1000, cyclesMinimum |-> 1000, cyclesMaximum |-> 3000000,
        yieldsPerSecond |-> 30, clockByFrame |-> fFrame,
        requestAnimationFrame |-> "default", clocks |-> <<"cpu">>,
        timers |-> <<100>> ]
        : fFrame \in {"default", "true"} }

InitTimer ==
    /\ InitMachine
    /\ \E config \in TimerConfigs : time = Clock(config)

TimedCallbacks ==
    \/ \E id \in DOMAIN time.timeouts, fElapsed \in BOOLEAN, mhz \in Speeds :
          OnRunTimeout(id, 0, fElapsed, mhz)
    \/ \E id \in time.frames, fElapsed \in BOOLEAN, mhz \in Speeds :
          OnAnimationFrame(id, 0, fElapsed, mhz)

NextTimer == Start \/ Stop \/ TimedCallbacks

SpecTimer == InitTimer /\ [][NextTimer]_vars

\* the device timer is the last one registered
iDeviceTimer == Len(time.aTimers)

\* its interval in cycles at the target multiplier
Interval ==
    Ceil(time.nCyclesPerSecond * time.nTargetMultiplier
            * time.aTimers[iDeviceTimer].msAuto, 100 * 1000)

\* C20: after N cycles executed while Running (all cycles of this machine are)
\* the callback of the auto-interval timer has been called N div c times,
\* c being the interval in cycles (100 for 100 ms at 1000 cycles per second).
C20_TimerCadence ==
    time.aCalls[iDeviceTimer] = time.nCyclesLife \div Interval

----------------------------------------------------------------------------
\* Speed changes

\* the multipliers (in percent) a speed change asks for
Multipliers == {100, 200}

\* an explicit setSpeed(nMultiplier) call
SetSpeed(nMultiplier) ==
    /\ time' = setSpeed(time, nMultiplier).t
    /\ UNCHANGED machine

\* the throttle slider's "change" event: setSpeedThrottle() between setting and
\* clearing fThrottling; nMultiplier is what the slider's position works out to
OnThrottleChange(nMultiplier) ==
    /\ time' = [setSpeed([time EXCEPT !.fThrottling = TRUE], nMultiplier).t
                    EXCEPT !.fThrottling = FALSE]
    /\ UNCHANGED machine

\* run segments of a host that keeps pace with the target speed
PacedCallbacks ==
    \/ \E id \in DOMAIN time.timeouts : OnRunTimeout(id, 0, TRUE, time.mhzTarget)
    \/ \E id \in time.frames : OnAnimationFrame(id, 0, TRUE, time.mhzTarget)

NextSpeed ==
    \/ Start
    \/ Stop
    \/ PacedCallbacks
    \/ \E nMultiplier \in Multipliers : SetSpeed(nMultiplier)
    \/ \E nMultiplier \in Multipliers : OnThrottleChange(nMultiplier)

SpecSpeed == InitTimer /\ [][NextSpeed]_vars

AutoTimers(t) == { i \in 1 .. Len(t.aTimers) : t.aTimers[i].msAuto >= 0 }

\* cycles nNew at multiplier mNew are the same wall-clock time as cycles nOld
\* at multiplier mOld, to within the rounding of one cycle
SameTime(nOld, mOld, nNew, mNew) ==
    /\ nNew * mOld > nOld * mNew - mOld
    /\ nNew * mOld < nOld * mNew + mOld

\* C21: setSpeed leaves every auto-interval timer with the wall-clock time it
\* had left: its countdown after the call, at the new current multiplier, is
\* the countdown before the call, at the old one, converted to the new
\* multiplier.
C21_SpeedKeepsTimers ==
    \A nMultiplier \in Multipliers : \A i \in AutoTimers(time) :
        LET s == setSpeed(time, nMultiplier).t
        IN  SameTime(time.aTimers[i].nCyclesLeft, time.nCurrentMultiplier,
                     s.aTimers[i].nCyclesLeft, s.nCurrentMultiplier)

----------------------------------------------------------------------------
\* A host that cannot keep up

\* the speed (in percent of the base speed) the lagging host is measured at
\* after every run segment
LagSpeed == 50

\* cycles of one run (nCyclesRun) that take several run segments
SeveralSegments == 250

LaggingCallbacks ==
    \/ \E id \in DOMAIN time.timeouts : OnRunTimeout(id, 0, TRUE, LagSpeed)
    \/ \E id \in time.frames : OnAnimationFrame(id, 0, TRUE, LagSpeed)

NextLag ==
    \/ Start
    \/ Stop
    \/ LaggingCallbacks
    \/ \E nMultiplier \in Multipliers : OnThrottleChange(nMultiplier)

SpecLag == InitTimer /\ [][NextLag]_vars

\* the measured speed is below 90% of the target speed
BelowTarget(t) == t.mhzCurrent > 0 /\ 10 * t.mhzCurrent < 9 * t.mhzTarget

\* C22: when the measured speed has been below 90% of the target speed for
\* several run segments and the user is not throttling, the target multiplier
\* is the base multiplier.
C22_ThrottleDegrade ==
    (/\ time.fRunning
     /\ ~time.fThrottling
     /\ BelowTarget(time)
     /\ time.nCyclesRun >= SeveralSegments)
        => time.nTargetMultiplier = time.nBaseMultiplier

----------------------------------------------------------------------------
\* Clocks that throw

\* C23: when a clock throws during a burst, of a run segment or of a step(),
\* the exception does not leave the scheduler's call, and the scheduler is
\* then Stopped with nothing of the run chain pending (a step timeout still
\* pending finds nStepping = 0 and does nothing).
C23_FaultContained ==
    \A iFault \in 1 .. Len(time.aClocks) :
        /\ Running(time) =>
              \A fAnimation \in {time.fClockByFrame} :
                  ThrownBurst(time, fAnimation, iFault).thrown =>
                      LET r == runCycles(time, fAnimation, iFault, TRUE, time.mhzTarget)
                      IN  Stopped(r) /\ Cancelled(r)
        /\ ~Running(time) =>
              \A nRepeat \in 0 .. MaxRepeat :
                  LET r == step(time, nRepeat, iFault)
                  IN  /\ ~r.thrown
                      /\ r # step(time, nRepeat, 0) =>
                            Stopped(r.t) /\ Cancelled(r.t)

----------------------------------------------------------------------------
\* Saved state of a Memory block

\* the (count, value) pairs of compress(); iCompare, iSrc are 0-based
RECURSIVE RunEnd(_, _, _)
RunEnd(aSrc, iCompare, n) ==
    IF iCompare < Len(aSrc) /\ aSrc[iCompare + 1] = n
    THEN RunEnd(aSrc, iCompare + 1, n) ELSE iCompare

RECURSIVE CompLoop(_, _, _)
CompLoop(aSrc, iSrc, aComp) ==
    IF iSrc < Len(aSrc)
    THEN With(RunEnd(aSrc, iSrc + 1, aSrc[iSrc + 1]),
         LAMBDA iCompare :
            CompLoop(aSrc, iCompare, aComp \o <<iCompare - iSrc, aSrc[iSrc + 1]>>))
    ELSE aComp

Pairs(aSrc) == CompLoop(aSrc, 0, <<>>)

\* compress as it would be if it always returned the pairs
compress_AlwaysPairs(aSrc) == Pairs(aSrc)

compress(aSrc) ==
    With(Pairs(aSrc),
    LAMBDA aComp : IF Len(aComp) >= Len(aSrc) THEN aSrc ELSE aComp)

\* while (c--) aDst[iDst++] = n, for a count that is undefined or not negative
Run(c, n) == IF c = UNDEFINED THEN <<>> ELSE Fill(c, n)

RECURSIVE DecLoop(_, _, _)
DecLoop(aComp, iComp, aDst) ==
    IF iComp < Len(aComp) - 1
    THEN DecLoop(aComp, iComp + 2, aDst \o Run(aComp[iComp + 1], aComp[iComp + 2]))
    ELSE aDst

\* new Array(length): the elements nothing is assigned to read as undefined
Padded(aDst, length) ==
    IF Len(aDst) < length THEN aDst \o Fill(length - Len(aDst), UNDEFINED) ELSE aDst

decompress(aComp, length) ==
    IF Len(aComp) = length THEN aComp
    ELSE Padded(DecLoop(aComp, 0, <<>>), length)

\* largest size of the block whose state is saved
MaxSize == 4

\* the block: a Memory of the machine that is not on the Bus
idBlock == ForeignId

SaveConfigs ==
    { [ c |-> c, type |-> type, values |-> values ] :
        c \in Configs, type \in {READONLY, READWRITE},
        values \in UNION { [1 .. size -> DataVals] : size \in 0 .. MaxSize } }

InitSave ==
    \E config \in SaveConfigs :
        /\ cfg = config.c
        /\ bus = Bus(config.c).bus
        /\ blocks = Bus(config.c).blocks
        /\ mem = Bus(config.c).mem @@
                    (idBlock :> Memory(idBlock, config.c, config.type, UNDEFINED,
                                       Len(config.values), config.values))
        /\ fPowered = FALSE
        /\ time = Clock(ClockConfig)

\* block.writeData(offset, value)
MemWrite(offset, value) ==
    /\ offset < mem[idBlock].size
    /\ mem' = [mem EXCEPT ![idBlock] = CallWrite(@, @.writeData, offset, value)]
    /\ UNCHANGED <<cfg, bus, blocks, fPowered, time>>

MemIsDirty ==
    /\ mem' = [mem EXCEPT ![idBlock] = isDirty(@).b]
    /\ UNCHANGED <<cfg, bus, blocks, fPowered, time>>

NextSave ==
    \/ \E offset \in 0 .. MaxSize - 1, value \in DataVals : MemWrite(offset, value)
    \/ MemIsDirty

SpecSave == InitSave /\ [][NextSave]_vars

\* C24: decompress(compress(xs), len(xs)) = xs for the values xs of the
\* block, which range over every array of at most MaxSize values: the empty
\* array, arrays of equal values, arrays without two equal neighbours, and
\* arrays whose pairs are as long as the array.
C24_CompressRoundTrip ==
    LET xs == mem[idBlock].values
    IN  /\ decompress(compress(xs), Len(xs)) = xs
        /\ (compress(xs) # xs) = (Len(Pairs(xs)) < Len(xs))
        /\ compress(xs) # xs => compress(xs) = Pairs(xs)

C24_Witness ==
    LET xs == mem[idBlock].values
    IN  /\ Len(xs) = MaxSize
        /\ Len(compress(xs)) = 2
        /\ mem[idBlock].fDirty
        /\ decompress(compress(xs), Len(xs)) = xs

\* Memory.saveState: what it pushes onto state
MemorySaveState(b) == <<b.idDevice, b.fDirty, FALSE, compress(b.values)>>

\* compress() returned its argument: the saved tuple holds the block's own
\* values array, not a copy
SavedIsValues(b) == Len(Pairs(b.values)) >= Len(b.values)

\* Memory.loadState of a saved tuple
MemoryLoadTuple(b, state) ==
    MemoryLoadState(b, [ idDevice |-> state[1], fDirty |-> state[2],
                         values |-> decompress(state[4], b.size) ])

\* the tuple saved from block b, as it reads once that block has become w
Later(b, w) ==
    IF SavedIsValues(b) THEN [MemorySaveState(b) EXCEPT ![4] = w.values]
    ELSE MemorySaveState(b)

\* Memory.loadState of the tuple saved from block b after it has been through
\* JSON.stringify and JSON.parse (Machine.stopDevices, WebIO.saveLocalStorage,
\* loadLocalStorage): an Array comes back as an equal Array; a Uint8Array comes
\* back as an object of its indices, which has no length, so that decompress()
\* returns new Array(size) with nothing assigned
MemoryLoadStored(w, b) ==
    IF b.buffer /\ SavedIsValues(b)
    THEN MemoryLoadState(w, [ idDevice |-> b.idDevice, fDirty |-> b.fDirty,
                              values |-> Padded(<<>>, w.size) ])
    ELSE MemoryLoadTuple(w, MemorySaveState(b))

\* the block as the next session constructs it
Rebuilt(b) == Memory(b.idDevice, cfg, b.type, UNDEFINED, b.size, NoValues)

Restored(r, b) == r.ret /\ r.b.values = b.values /\ r.b.fDirty = b.fDirty

\* C25: the tuple saved from a block restores the block's values and dirty
\* flag as they were when it was saved, and loadState returns true: when it is
\* loaded at once, when it is loaded after the block has been written, and
\* when it is loaded from storage into the block of the same id and size that
\* the next session constructs.
C25_SaveLoadRoundTrip ==
    LET b == mem[idBlock]
    IN  /\ Restored(MemoryLoadTuple(b, MemorySaveState(b)), b)
        /\ \A offset \in 0 .. b.size - 1, value \in DataVals :
              LET w == CallWrite(b, b.writeData, offset, value)
              IN  Restored(MemoryLoadTuple(w, Later(b, w)), b)
        /\ Restored(MemoryLoadStored(Rebuilt(b), b), b)

\* the values of blocks of any size up to MaxSize
SavedArrays == UNION { [1 .. size -> DataVals] : size \in 0 .. MaxSize }

Refused(r, b) == ~r.ret /\ r.b = b

\* C26: loadState of a tuple saved from a block with another id, or from a
\* block with another number of values, returns false and leaves the block as
\* it was.
C26_RestoreMismatch ==
    LET b == mem[idBlock]
    IN  \A fDirty \in BOOLEAN, values \in SavedArrays :
          /\ Refused(MemoryLoadTuple(b, <<NoneId, fDirty, FALSE, compress(values)>>), b)
          /\ Len(values) # b.size =>
                Refused(MemoryLoadTuple(b, <<idBlock, fDirty, FALSE, compress(values)>>), b)

----------------------------------------------------------------------------
\* The Bus's count of traps

\* a machine on which traps are requested and released
NextTrap == Power \/ Trapping

SpecTrap == Init /\ [][NextTrap]_vars

\* the sum of both hook counts over the blocks S of heap m
RECURSIVE Hooks(_, _)
Hooks(m, S) ==
    IF S = {} THEN 0
    ELSE LET id == CHOOSE i \in S : TRUE
         IN  m[id].nReadTraps + m[id].nWriteTraps + Hooks(m, S \ {id})

\* the distinct blocks of the Bus
BusBlocks == { blocks[i] : i \in Slots }

\* a Bus call's result r changed nTraps by nDelta when it returned true and
\* not at all when it returned false
Counted(r, nDelta) ==
    r.bus.nTraps = bus.nTraps + (IF r.ret THEN nDelta ELSE 0)

\* C27: every trapRead/trapWrite of the Bus that returns true adds one to
\* nTraps, every untrapRead/untrapWrite that returns true takes one off, and
\* a call that returns false leaves it; nTraps less its value after
\* construction (the Bus type) is the sum of the read and write hook counts
\* of the distinct blocks and is never negative; on a static Bus nTraps is
\* zero exactly when no block has a hook.
C27_TrapCount ==
    /\ \A addr \in TrapAddrs, func \in Funcs :
          /\ Counted(BusTrapRead(cfg, bus, blocks, mem, addr, func), 1)
          /\ Counted(BusTrapWrite(cfg, bus, blocks, mem, addr, func), 1)
          /\ Counted(BusUntrapRead(cfg, bus, blocks, mem, addr, func), -1)
          /\ Counted(BusUntrapWrite(cfg, bus, blocks, mem, addr, func), -1)
    /\ bus.nTraps - cfg.type = Hooks(mem, BusBlocks)
    /\ bus.nTraps >= cfg.type
    /\ cfg.type = STATIC =>
          (bus.nTraps = 0) =
              (\A id \in BusBlocks : mem[id].nReadTraps = 0 /\ mem[id].nWriteTraps = 0)

\* traps have been requested and one released again, on a static Bus
C27_Witness ==
    /\ cfg.type = STATIC
    /\ bus.nTraps = 1
    /\ \E id \in BusBlocks : mem[id].nReadTraps = 0 /\ mem[id].nWriteTraps = 1
    /\ \E addr \in TrapAddrs, func \in Funcs :
          ~BusTrapWrite(cfg, bus, blocks, mem, addr, func).ret

----------------------------------------------------------------------------
\* The budget of a burst

\* the run segment as startRun leaves it for its first burst
Segment(t) == [calcCycles(t) EXCEPT !.nCyclesThisRun = 0, !.fYield = FALSE]

\* the countdowns of the armed timers
Countdowns(t) ==
    { t.aTimers[i].nCyclesLeft :
        i \in { j \in 1 .. Len(t.aTimers) : t.aTimers[j].nCyclesLeft >= 0 } }

Least(S) == CHOOSE n \in S : \A k \in S : n <= k

\* the cycles the target rate allows: the whole cycles on deposit in a frame
\* (after this frame's deposit when less than one cycle is left), else the
\* cycles of one yield period at the current multiplier
RateBudget(t, fAnimation) ==
    IF fAnimation
    THEN Max(0, IF t.nCyclesDeposited < 60
                THEN t.nCyclesDeposited + t.nCyclesDepositPerFrame
                ELSE t.nCyclesDeposited) \div 60
    ELSE Ceil(t.nCyclesPerSecond * t.nCurrentMultiplier * t.msYield, 100 * 1000)

\* the burst that the run loop makes in s is within budget
WithinBudget(s) ==
    LET g == getCyclesPerRun(s, s.fClockByFrame, 0)
        b == doBurst(g.t, g.ret, 0)
    IN  /\ g.ret = Least(Countdowns(s) \cup {RateBudget(s, s.fClockByFrame)})
        /\ g.t.aTimers = s.aTimers
        /\ \A n \in Countdowns(s) : b.ret <= n

\* the run loop after its burst in s, timers notified
AfterBurst(s) ==
    With(getCyclesPerRun(s, s.fClockByFrame, 0),
    LAMBDA g : With(doBurst(g.t, g.ret, 0),
    LAMBDA b : notifyTimers(endBurst(b.t, b.ret), b.ret)))

\* C28: the budget the run loop requests for a burst is the least of the
\* rate's budget and the countdowns of the armed timers, and the cycles the
\* burst executes exceed no armed timer's countdown; for the first burst of a
\* run segment and for the burst that follows it in the same segment.
C28_BurstBudget ==
    Running(time) =>
        /\ WithinBudget(Segment(time))
        /\ LET n == AfterBurst(Segment(time))
           IN  n.fRunning /\ ~n.fYield => WithinBudget(n)

\* a burst cut short by the device's timer
C28_Witness ==
    /\ Running(time)
    /\ LET s == Segment(time)
           g == getCyclesPerRun(s, s.fClockByFrame, 0)
       IN  /\ g.ret > 0
           /\ g.ret < RateBudget(s, s.fClockByFrame)
           /\ g.ret = s.aTimers[iDeviceTimer].nCyclesLeft
           /\ doBurst(g.t, g.ret, 0).ret = g.ret

----------------------------------------------------------------------------
\* The clocks of a burst: a 100 Hz clock, driven by timeouts or by frames, with
\* up to MaxClocks clocked devices of any kind in any order

MaxClocks == 2
MaxBudget == 4

ClockKinds == {"cpu", "unit", "idle", "wide"}

ClockLists == UNION { [1 .. n -> ClockKinds] : n \in 0 .. MaxClocks }

BurstConfigs ==
    { [ cyclesPerSecond |-> 100, cyclesMinimum |-> 100, cyclesMaximum |-> 3000000,
        yieldsPerSecond |-> 30, clockByFrame |-> fFrame,
        requestAnimationFrame |-> "default", clocks |-> aClocks, timers |-> <<>> ]
        : fFrame \in {"default", "false"}, aClocks \in ClockLists }

InitBurst ==
    /\ InitMachine
    /\ \E config \in BurstConfigs : time = Clock(config)

NextBurst == Start \/ Stop \/ PacedCallbacks

SpecBurst == InitBurst /\ [][NextBurst]_vars

Budgets == 0 .. MaxBudget

\* the startClock calls of doBurst(nCycles), in the order they are made
BurstCalls(t, nCycles) ==
    IF Len(t.aClocks) = 0 THEN <<>>
    ELSE ClockLoop([t EXCEPT !.nCyclesBurst = nCycles, !.nCyclesRemain = nCycles],
                   0, nCycles, 0, <<>>).calls

\* what the burst takes a call to have executed
Executed(t, call) ==
    With(startClock(t.aClocks[call[1]], call[2]), LAMBDA r : IF r = 0 THEN 1 ELSE r)

RECURSIVE Sum(_, _)
Sum(t, calls) ==
    IF calls = <<>> THEN 0 ELSE Executed(t, Head(calls)) + Sum(t, Tail(calls))

\* C29: doBurst(n) ends for every budget n >= 0 and every list of clocked
\* devices, after at most n calls of startClock; with devices it returns the
\* sum of what the calls returned, a return of 0 counted as 1 cycle; without
\* devices it calls nothing and returns n; it returns at least n, and 0 only
\* for n = 0
C29_BurstProgress ==
    \A n \in Budgets :
        With(doBurst(time, n, 0), LAMBDA b : With(BurstCalls(time, n), LAMBDA calls :
            /\ ~b.thrown
            /\ b.t.nCyclesRemain <= 0
            /\ Len(calls) <= n
            /\ \A i \in 1 .. Len(calls) : Executed(time, calls[i]) >= 1
            /\ (Len(time.aClocks) > 0 => b.ret = Sum(time, calls))
            /\ b.ret >= n
            /\ (n = 0 => b.ret = 0 /\ calls = <<>>)
            /\ (Len(time.aClocks) = 0 => b.ret = n /\ calls = <<>>)
            /\ (Len(time.aClocks) > 0 /\ (\A i \in 1 .. Len(time.aClocks) : time.aClocks[i] = "idle")
                    => b.ret = n /\ Len(calls) = n)))

\* a run that has clocked cycles with a device that returns 0, and a budget that
\* takes the burst round the devices more than once
C29_Witness ==
    /\ time.nCyclesLife > 0
    /\ \E i \in 1 .. Len(time.aClocks) : time.aClocks[i] = "idle"
    /\ \E n \in Budgets : Len(BurstCalls(time, n)) > Len(time.aClocks)

\* C30: in a burst the devices are called in the order they were registered,
\* from the first one and round again; the first is asked for the budget and
\* each following one for what the one before it executed; and a burst with a
\* positive budget calls every registered device
C30_BurstOrder ==
    \A n \in Budgets \ {0} :
        With(BurstCalls(time, n), LAMBDA calls :
            Len(time.aClocks) > 0 =>
                /\ calls # <<>>
                /\ calls[1] = <<1, n>>
                /\ \A i \in 2 .. Len(calls) :
                      /\ calls[i][1] = (calls[i - 1][1] % Len(time.aClocks)) + 1
                      /\ calls[i][1] > 1 => calls[i][2] = Executed(time, calls[i - 1])
                /\ { calls[i][1] : i \in 1 .. Len(calls) } = 1 .. Len(time.aClocks))

----------------------------------------------------------------------------
\* Devices and timer callbacks that call back into Time: a 100 Hz clock with a
\* meter, driven by timeouts or by frames, whose devices may stop the clock or
\* arm a timer while they are clocked, and whose timers' callbacks may arm
\* their timer, stop the clock, or stop and start it

NestClocks ==
    { <<>>, <<"cpu">>, <<"halting">>, <<"arming">>,
      <<"unit", "cpu">>, <<"unit", "halting">>, <<"unit", "arming">> }

\* a device's timer: its callback, and its interval when it re-arms itself
TimerKinds ==
    { [ callBack |-> "onTimer", msAuto |-> ArmMs ], [ callBack |-> "onTimer", msAuto |-> -1 ],
      [ callBack |-> "onArm", msAuto |-> -1 ], [ callBack |-> "onArm", msAuto |-> 2 * ArmMs ],
      [ callBack |-> "onStop", msAuto |-> ArmMs ], [ callBack |-> "onRestart", msAuto |-> ArmMs ] }

TimerLists ==
    { <<>> } \cup { <<kind>> : kind \in TimerKinds }
        \cup { << [ callBack |-> "onTimer", msAuto |-> ArmMs ],
                  [ callBack |-> "onStop", msAuto |-> ArmMs ] >> }

RECURSIVE AddCallbacks(_, _, _)
AddCallbacks(t, aKinds, i) ==
    IF i > Len(aKinds) THEN t
    ELSE AddCallbacks(addTimer(t, aKinds[i].callBack, aKinds[i].msAuto).t, aKinds, i + 1)

NestConfigs ==
    { [ cyclesPerSecond |-> 100, cyclesMinimum |-> 100, cyclesMaximum |-> 3000000,
        yieldsPerSecond |-> 30, clockByFrame |-> fFrame,
        requestAnimationFrame |-> "default", clocks |-> aClocks, timers |-> <<>> ]
        : fFrame \in {"default", "false"}, aClocks \in NestClocks }

InitNest ==
    /\ InitMachine
    /\ \E config \in NestConfigs, aKinds \in TimerLists :
          time = AddCallbacks(Clock(config), aKinds, 1)
                    @@ [ nClocked |-> 0, nClockedAtRun |-> 0 ]

\* a device arms its timer from an event of the host (a key, a click)
SetTimer(iTimer, fReset) ==
    /\ time' = setTimer(time, iTimer, ArmMs, fReset).t
    /\ UNCHANGED machine

NextNest ==
    \/ Start
    \/ Stop
    \/ Step(1)
    \/ PacedCallbacks
    \/ \E iTimer \in 0 .. Len(time.aTimers) + 1, fReset \in BOOLEAN :
          /\ iTimer \in 1 .. Len(time.aTimers) => time.aTimers[iTimer].callBack # "onYield"
          /\ SetTimer(iTimer, fReset)

SpecNest == InitNest /\ [][NextNest]_vars

\* C31: between bursts cyclesLife is the sum of what the devices reported in
\* all bursts so far (a 0 taken as 1, the budget without devices), also when a
\* device or a timer's callback ended the burst by setTimer() or stop();
\* cyclesThisRun is what was executed since the current run segment started;
\* and no step of the scheduler decreases cyclesLife
C31_CycleAccounting ==
    /\ time.nCyclesLife = time.nClocked
    /\ time.nCyclesThisRun = time.nClocked - time.nClockedAtRun
    /\ step(time, 1, 0).t.nCyclesLife >= time.nCyclesLife
    /\ \A id \in DOMAIN time.timeouts :
          run(clearTimeout(time, id), 0, TRUE, time.mhzTarget).nCyclesLife
              >= time.nCyclesLife
    /\ \A id \in time.frames :
          animate(cancelAnimationFrame(time, id), 0, TRUE, time.mhzTarget).nCyclesLife
              >= time.nCyclesLife

\* a run in which a device, clocked after another one, has armed its timer
\* from inside the burst
C31_Witness ==
    /\ time.aClocks = <<"unit", "arming">>
    /\ DeviceTimer(time) > 0
    /\ time.fRunning
    /\ time.nCyclesRun >= 4
    /\ time.nCyclesLife > time.nCyclesRun

\* what notifyTimers(nCycles), called in the state t and leaving the state r, has
\* done if the timers had been reduced by nExecuted: a dormant timer is left
\* alone; a timer with more than nExecuted cycles left loses them; any other
\* timer is called once, dormant when it is called (so that an "onArm"
\* callback's setTimer arms it), and is then armed for its interval unless the
\* callback has armed it, or dormant when it has no interval
Notified(t, r, nExecuted) ==
    \A i \in 1 .. Len(t.aTimers) :
        With(t.aTimers[i], LAMBDA timer :
            IF timer.nCyclesLeft < 0
            THEN r.aTimers[i] = timer /\ r.aCalls[i] = t.aCalls[i]
            ELSE IF timer.nCyclesLeft - nExecuted > 0
            THEN /\ r.aTimers[i].nCyclesLeft = timer.nCyclesLeft - nExecuted
                 /\ r.aCalls[i] = t.aCalls[i]
            ELSE /\ r.aCalls[i] = t.aCalls[i] + 1
                 /\ r.aTimers[i].nCyclesLeft =
                        CASE timer.callBack = "onArm" -> getCyclesPerMS(r, ArmMs)
                          [] timer.msAuto >= 0 -> getCyclesPerMS(r, timer.msAuto)
                          [] OTHER -> -1)

\* the first burst of a run segment begun in the state s: the state after its
\* endBurst, and what the burst returned
FirstBurst(s) ==
    With(getCyclesPerRun(s, s.fClockByFrame, 0),
    LAMBDA g : With(doBurst(g.t, g.ret, 0),
    LAMBDA b : [ t |-> endBurst(b.t, b.ret), ret |-> b.ret ]))

RECURSIVE Expired(_, _, _)
Expired(t, iTimer, nCycles) ==
    IF iTimer = 0 THEN <<>>
    ELSE IF t.aTimers[iTimer].nCyclesLeft >= 0 /\ t.aTimers[iTimer].nCyclesLeft <= nCycles
    THEN <<iTimer>> \o Expired(t, iTimer - 1, nCycles)
    ELSE Expired(t, iTimer - 1, nCycles)

\* the callbacks of the first burst of a run segment begun in the state t, in
\* the order they are made: the timer, and cyclesLife when it is called
FirstCalls(t) ==
    With(FirstBurst(Segment(t) @@ [ aLog |-> <<>> ]),
    LAMBDA e : notifyTimers(e.t, e.ret).aLog)

\* C33: the timers are gone through after the burst's cycles have been added
\* to the counters, so that a callback finds in cyclesLife all that the devices
\* have reported; the timers that expire in one burst are called last
\* registered first
C33_TimerOrder ==
    Running(time) =>
        With(FirstBurst(Segment(time)), LAMBDA e : With(FirstCalls(time), LAMBDA log :
            /\ e.t.nCyclesLife = e.t.nClocked
            /\ e.t.nCyclesBurst = 0
            /\ Len(log) = Len(Expired(e.t, Len(e.t.aTimers), e.ret))
            /\ \A i \in 1 .. Len(log) :
                  /\ log[i][1] = Expired(e.t, Len(e.t.aTimers), e.ret)[i]
                  /\ log[i][2] = e.t.nCyclesLife
            /\ \A i \in 2 .. Len(log) : log[i][1] < log[i - 1][1]))

\* two timers expire in the burst the next run callback executes
C33_Witness ==
    /\ Running(time)
    /\ time.nCyclesLife > 0
    /\ Len(FirstCalls(time)) >= 2

----------------------------------------------------------------------------
\* Pacing by frames: clocks of 30, 100 and 200 cycles per second driven by
\* frames, with the CPU and with or without a device timer; the host may lag

FrameRates == {30, 100, 200}

FrameConfigs ==
    { [ cyclesPerSecond |-> nCyclesPerSecond, cyclesMinimum |-> 30,
        cyclesMaximum |-> 3000000, yieldsPerSecond |-> 30, clockByFrame |-> "true",
        requestAnimationFrame |-> "default", clocks |-> <<"cpu">>, timers |-> aAuto ]
        : nCyclesPerSecond \in FrameRates, aAuto \in { <<>>, <<ArmMs>> } }

InitFrame ==
    /\ InitMachine
    /\ \E config \in FrameConfigs : time = Clock(config)

FrameCallbacks ==
    \E id \in time.frames, fElapsed \in BOOLEAN, mhz \in Speeds :
        OnAnimationFrame(id, 0, fElapsed, mhz)

NextFrame == Start \/ Stop \/ FrameCallbacks

SpecFrame == InitFrame /\ [][NextFrame]_vars

\* the most frames a run has in the bounds
MaxFrames == 20

\* the accumulator and the deposits are kept in sixtieths of a cycle: a frame
\* deposits cyclesPerSecond of them at the base speed
Balance(t) == 60 * t.nCyclesRun + t.nCyclesDeposited

\* C34: with the CPU, which executes what it is asked for, a frame deposits
\* cyclesPerSecond / 60 cycles when the accumulator holds less than a cycle,
\* and the frame's bursts withdraw the whole cycles; after a frame's segment the
\* accumulator is in [0, 1), and the cycles executed in a run are the integer
\* part of what the frames of the run deposited
C34_FramePacing ==
    Running(time) =>
        /\ time.nCyclesDepositPerFrame = time.nCyclesPerSecond
        /\ time.nCyclesDeposited >= 0 /\ time.nCyclesDeposited < 60
        /\ \E nFrames \in 0 .. MaxFrames :
              /\ Balance(time) = nFrames * time.nCyclesDepositPerFrame
              /\ time.nCyclesRun = (nFrames * time.nCyclesDepositPerFrame) \div 60
        /\ \A id \in time.frames, mhz \in Speeds :
              With(animate(cancelAnimationFrame(time, id), 0, TRUE, mhz), LAMBDA r :
                  /\ r.fRunning
                  /\ Balance(r) = Balance(time) + time.nCyclesDepositPerFrame
                  /\ r.nCyclesLife - time.nCyclesLife = r.nCyclesRun - time.nCyclesRun
                  /\ r.nCyclesDeposited >= 0 /\ r.nCyclesDeposited < 60)

\* a run of several frames that has executed cycles and holds a fraction
C34_Witness ==
    /\ Running(time)
    /\ time.nCyclesRun >= 3
    /\ time.nCyclesDeposited > 0
    /\ time.nCyclesPerSecond = 100

----------------------------------------------------------------------------
\* The bursts of a run segment, one at a time. Time carries the position of
\* the run callback: fInRun, it is in the do-while of runCycles, for a frame
\* (fAnimation) or for a timeout. A clock of 100 cycles per second driven by
\* timeouts, and clocks of 30 and 100 driven by frames, with the CPU and a
\* device's timer that the host arms, for ArmMs or for 0 ms

MaxLoopCycles == 6

LoopConfigs ==
    { [ cyclesPerSecond |-> m[1], cyclesMinimum |-> 30, cyclesMaximum |-> 3000000,
        yieldsPerSecond |-> 30, clockByFrame |-> m[2], requestAnimationFrame |-> m[2],
        clocks |-> <<"cpu">>, timers |-> <<-1>> ]
        : m \in { <<100, "false">>, <<100, "true">>, <<30, "true">> } }

InitLoop ==
    /\ InitMachine
    /\ \E config \in LoopConfigs :
          time = Clock(config) @@ [ fInRun |-> FALSE, fAnimation |-> FALSE ]

\* setTimer from an event of the host, between two callbacks
ArmTimer(ms) ==
    /\ ~time.fInRun
    /\ time' = setTimer(time, DeviceTimer(time), ms, FALSE).t
    /\ UNCHANGED machine

StartLoop ==
    /\ ~time.fInRun
    /\ Start

\* run() up to the do-while of runCycles
BeginRun(id) ==
    /\ ~time.fInRun
    /\ time.timeouts[id] = "run"
    /\ time' = With([clearTimeout(time, id) EXCEPT !.idRunTimeout = 0],
                LAMBDA z : IF ~z.fRunning THEN z
                           ELSE [Segment(z) EXCEPT !.fInRun = TRUE, !.fAnimation = FALSE])
    /\ UNCHANGED machine

\* animate() up to the do-while of runCycles
BeginFrame(id) ==
    /\ ~time.fInRun
    /\ time.fClockByFrame
    /\ time' = With([cancelAnimationFrame(time, id) EXCEPT !.idAnimation = 0],
                LAMBDA z : IF ~z.fRunning THEN z
                           ELSE [Segment(z) EXCEPT !.fInRun = TRUE, !.fAnimation = TRUE])
    /\ UNCHANGED machine

\* one pass of the do-while
OneBurst(t) ==
    With(getCyclesPerRun(t, t.fAnimation, 0),
    LAMBDA g : With(doBurst(g.t, g.ret, 0),
    LAMBDA b : notifyTimers(endBurst(b.t, b.ret), b.ret)))

\* stopRun and what run() and animate() do after runCycles
EndRun(t) ==
    With([calcSpeed(t, t.nCyclesRun, TRUE, t.mhzTarget) EXCEPT !.fInRun = FALSE],
    LAMBDA c :
      IF ~c.fRunning THEN c
      ELSE IF c.fAnimation
      THEN With(requestAnimationFrame(c), LAMBDA q : [q.t EXCEPT !.idAnimation = q.ret])
      ELSE With(setTimeout(c, "run"), LAMBDA q : [q.t EXCEPT !.idRunTimeout = q.ret]))

AtBound(t) == t.nCyclesLife >= MaxLoopCycles

Burst ==
    /\ time.fInRun
    /\ ~AtBound(time)
    /\ time' = With(OneBurst(time),
                LAMBDA n : IF n.fRunning /\ ~n.fYield THEN n ELSE EndRun(n))
    /\ UNCHANGED machine

Window ==
    \/ \E id \in DOMAIN time.timeouts : BeginRun(id)
    \/ \E id \in time.frames : BeginFrame(id)

NextLoop ==
    \/ StartLoop
    \/ \E ms \in {0, ArmMs} : ArmTimer(ms)
    \/ Window
    \/ Burst

\* the engine goes on with the loop it is in, and the window calls the
\* callbacks it has pending
SpecLoop == InitLoop /\ [][NextLoop]_vars /\ WF_vars(Burst) /\ WF_vars(Window)

Armed(t) == t.aTimers[DeviceTimer(t)].nCyclesLeft >= 0

\* C35: while the scheduler is Running every run segment comes to its yield,
\* and a timer that is armed, be it with a countdown of 0, is called (up to the
\* bound on the cycles of a behaviour)
C35_TimerLiveness ==
    /\ time.fInRun ~> (~time.fInRun \/ AtBound(time))
    /\ \A n \in 0 .. MaxLoopCycles :
          (Running(time) /\ Armed(time) /\ time.aCalls[DeviceTimer(time)] = n)
              ~> (time.aCalls[DeviceTimer(time)] > n \/ AtBound(time))

----------------------------------------------------------------------------
\* C36: at most one run callback and at most one frame are pending in any
\* state, whatever start(), stop() and step() calls the host makes between
\* the bursts and the devices and timer callbacks make during them, so that
\* there is one chain of run segments
C36_SingleChain ==
    /\ Cardinality(RunTimeouts(time)) <= 1
    /\ Cardinality(time.frames) <= 1

----------------------------------------------------------------------------
\* What setTimer and addTimer leave alone

Delays == {-1, 0, ArmMs}

\* the timers of r are those of t but for the countdown of timer iTimer
SameTimersBut(t, r, iTimer) ==
    /\ Len(r.aTimers) = Len(t.aTimers)
    /\ \A j \in 1 .. Len(t.aTimers) :
          IF j = iTimer
          THEN [r.aTimers[j] EXCEPT !.nCyclesLeft = 0] = [t.aTimers[j] EXCEPT !.nCyclesLeft = 0]
          ELSE r.aTimers[j] = t.aTimers[j]

\* C37: setTimer without the reset flag on an armed timer, and setTimer with
\* an index that is not one of 1 .. the number of timers, return -1 and change
\* nothing; any other setTimer arms timer iTimer, returns its countdown, and
\* changes no other timer; addTimer returns the number of timers plus one
\* and leaves the timers there are as they are, at their indexes
C37_SetTimerFrame ==
    /\ \A iTimer \in 0 .. Len(time.aTimers) + 1, ms \in Delays \ {-1}, fReset \in BOOLEAN :
          With(setTimer(time, iTimer, ms, fReset), LAMBDA r :
              IF iTimer \notin 1 .. Len(time.aTimers)
                 \/ (~fReset /\ time.aTimers[iTimer].nCyclesLeft >= 0)
              THEN r.ret = -1 /\ r.t = time
              ELSE /\ r.ret >= 0
                   /\ r.t.aTimers[iTimer].nCyclesLeft = r.ret
                   /\ SameTimersBut(time, r.t, iTimer))
    /\ \A msAuto \in Delays :
          With(addTimer(time, "onTimer", msAuto), LAMBDA r :
              /\ r.ret = Len(time.aTimers) + 1
              /\ Len(r.t.aTimers) = r.ret
              /\ SubSeq(r.t.aTimers, 1, Len(time.aTimers)) = time.aTimers
              /\ r.t.aTimers[r.ret].msAuto = msAuto
              /\ (r.t.aTimers[r.ret].nCyclesLeft >= 0) = (msAuto >= 0))

\* a running clock that has executed cycles, with a device's timer that is armed
C37_Witness ==
    /\ Running(time)
    /\ time.nCyclesLife > 0
    /\ DeviceTimer(time) > 0
    /\ time.aTimers[DeviceTimer(time)].nCyclesLeft > 0
    /\ setTimer(time, DeviceTimer(time), ArmMs, FALSE).ret = -1

----------------------------------------------------------------------------
\* The placeholder of the slots without a block

NoneSlots == { i \in Slots : mem[blocks[i]].type = NONE }

NoneAddrs == { addr \in Addrs : Shr(addr, blockShift) \in NoneSlots }

\* the callbacks of a log: the function, the base address and the offset
CallsOf(log) ==
    [ k \in 1 .. Len(log) |-> <<log[k].func, log[k].base, log[k].offset>> ]

\* the Bus st = [bus, mem] calls func, with an undefined base address and the
\* offset, for a read (a write) of every address of a slot without a block, and
\* refuses another callback for any such slot
ReadsTrapped(st, func) ==
    /\ \A addr \in NoneAddrs :
          CallsOf(BusReadData(st.bus, blocks, st.mem, addr).log)
              = << <<func, UNDEFINED, OffsetOf(addr)>> >>
    /\ \A addr \in NoneAddrs, other \in Funcs \ {func} :
          ~BusTrapRead(cfg, st.bus, blocks, st.mem, addr, other).ret

WritesTrapped(st, func) ==
    /\ \A addr \in NoneAddrs, value \in DataVals :
          CallsOf(BusWriteData(st.bus, blocks, st.mem, addr, value).log)
              = << <<func, UNDEFINED, OffsetOf(addr)>> >>
    /\ \A addr \in NoneAddrs, other \in Funcs \ {func} :
          ~BusTrapWrite(cfg, st.bus, blocks, st.mem, addr, other).ret

\* C38: the slots that were given no block hold the one NONE placeholder; a
\* trap requested through an address of one of them is called for accesses to
\* all of them, with the offset and an undefined base address, and a request
\* with another callback through any of them is refused
C38_SharedPlaceholder ==
    /\ \A i \in NoneSlots : blocks[i] = NoneId
    /\ \A addr \in NoneAddrs, func \in Funcs :
          /\ mem[NoneId].nReadTraps = 0 =>
                With(BusTrapRead(cfg, bus, blocks, mem, addr, func), LAMBDA r :
                    r.ret /\ ReadsTrapped(r, func))
          /\ mem[NoneId].nWriteTraps = 0 =>
                With(BusTrapWrite(cfg, bus, blocks, mem, addr, func), LAMBDA w :
                    w.ret /\ WritesTrapped(w, func))
    /\ (NoneSlots # {} /\ mem[NoneId].nReadTraps > 0) =>
          ReadsTrapped([bus |-> bus, mem |-> mem], mem[NoneId].readTrap)
    /\ (NoneSlots # {} /\ mem[NoneId].nWriteTraps > 0) =>
          WritesTrapped([bus |-> bus, mem |-> mem], mem[NoneId].writeTrap)

\* no slot has a block, and a read trap has been requested through one of them
C38_Witness ==
    /\ NoneSlots = Slots
    /\ Cardinality(Slots) > 1
    /\ fPowered
    /\ mem[NoneId].nReadTraps > 0
    /\ mem[NoneId].nWriteTraps = 0

----------------------------------------------------------------------------
\* Requests that leave the address space

\* block-aligned addresses and sizes up to twice the address space
Aligned == { k * blockSize : k \in 0 .. (blockTotal + blockTotal) }

\* r leaves every slot and every block as it was
Untouched(r) == r.blocks = blocks /\ r.mem = mem

\* C39: a block-aligned request with size 0, or one that starts at or beyond
\* the end of the address space, returns true and changes nothing; one that
\* starts inside and extends past the end returns true when the slots from its
\* start to the last slot hold no real block, and has then filled exactly
\* those slots with full blocks; the part of the range beyond the last slot is
\* no failure. The same holds with a block handed in (a ROM).
C39_RangeEnd ==
    \A addr \in Aligned, size \in Aligned, type \in {READONLY, READWRITE} :
        With(addBlocks(cfg, blocks, mem, addr, size, type), LAMBDA r :
        With(ROM(cfg, blocks, mem, addr, size, ImageAt(addr, size)), LAMBDA q :
            /\ (size = 0 \/ addr >= addrTotal) =>
                  /\ r.ret /\ Untouched(r)
                  /\ q.ret /\ Untouched(q)
            /\ (size > 0 /\ addr < addrTotal /\ addr + size > addrTotal
                    /\ FirstOccupied(addr, size) = blockTotal) =>
                  /\ Range(addr, size) = { i \in Slots : i * blockSize >= addr }
                  /\ r.ret /\ FilledBefore(r, addr, size, type, blockTotal)
                  /\ q.ret /\ FilledBefore(q, addr, size, READONLY, blockTotal)
                  /\ DOMAIN r.blocks = Slots
                  /\ DOMAIN q.blocks = Slots))

\* a Bus under construction whose last slot was filled while the first holds
\* the placeholder: requests from the first slot past the end are refused for
\* the block in the last, requests from the end on are accepted
C39_Witness ==
    /\ ~fPowered
    /\ blocks[0] = NoneId
    /\ mem[blocks[blockTotal - 1]].type = READWRITE
    /\ mem[blocks[blockTotal - 1]].addr = (blockTotal - 1) * blockSize
    /\ addBlocks(cfg, blocks, mem, addrTotal, blockSize, READONLY).ret
    /\ addBlocks(cfg, blocks, mem, 0, 0, READONLY).ret

----------------------------------------------------------------------------
\* Pairs on blocks with hooks

\* the callbacks of a log: the function, the offset and the value
ValuesOf(log) ==
    [ k \in 1 .. Len(log) |-> <<log[k].func, log[k].offset, log[k].value>> ]

\* the call a read (write) of the unit at addr with value makes: one if the
\* block has a read (write) hook, none otherwise
ReadCall(addr, value) ==
    IF Blk(addr).nReadTraps > 0
    THEN << <<Blk(addr).readTrap, OffsetOf(addr), value>> >>
    ELSE <<>>

WriteCall(addr, value) ==
    IF Blk(addr).nWriteTraps > 0
    THEN << <<Blk(addr).writeTrap, OffsetOf(addr), value>> >>
    ELSE <<>>

\* what the unit at addr holds, read past the hooks
UnitAt(addr) == BusReadData(bus, blocks, PlainMem(mem), addr).ret

\* C40: on a block with a read hook, readPair at an even address is one call of
\* the pair handler the hook replaced, and the hook is called twice, for offset
\* and offset + 1, both times with the whole pair value; on a block with a
\* write hook, writePair at an even address calls the hook twice in the same
\* way and is one call of the replaced pair handler. At an odd address the
\* pair is two single-unit accesses, and each calls the hook of its block once
\* with the value of that unit.
C40_PairHooks ==
    fPowered =>
        /\ \A addr \in EvenAddrs :
              /\ Blk(addr).nReadTraps > 0 =>
                    With(BusReadPair(bus, blocks, mem, addr), LAMBDA rp :
                        /\ rp.ret = CallReadPair(Blk(addr), Blk(addr).readPairOrig,
                                                 OffsetOf(addr))
                        /\ rp.ret = BusReadPair(bus, blocks, PlainMem(mem), addr).ret
                        /\ ValuesOf(rp.log) =
                              << <<Blk(addr).readTrap, OffsetOf(addr), rp.ret>>,
                                 <<Blk(addr).readTrap, OffsetOf(addr) + 1, rp.ret>> >>)
              /\ Blk(addr).nWriteTraps > 0 =>
                    \A v \in PairTripVals :
                        With(BusWritePair(bus, blocks, mem, addr, v), LAMBDA wp :
                            /\ wp.m = [mem EXCEPT ![BlockOf(blocks, addr)] =
                                          CallWritePair(Blk(addr), Blk(addr).writePairOrig,
                                                        OffsetOf(addr), v)]
                            /\ ValuesOf(wp.log) =
                                  << <<Blk(addr).writeTrap, OffsetOf(addr), v>>,
                                     <<Blk(addr).writeTrap, OffsetOf(addr) + 1, v>> >>)
        /\ \A addr \in OddAddrs :
              With((addr + 1) % addrTotal, LAMBDA next :
                  /\ ValuesOf(BusReadPair(bus, blocks, mem, addr).log) =
                        IF cfg.littleEndian
                        THEN ReadCall(addr, UnitAt(addr)) \o ReadCall(next, UnitAt(next))
                        ELSE ReadCall(next, UnitAt(next)) \o ReadCall(addr, UnitAt(addr))
                  /\ \A v \in PairTripVals :
                        ValuesOf(BusWritePair(bus, blocks, mem, addr, v).log) =
                            WriteCall(addr, FirstPart(v)) \o WriteCall(next, SecondPart(v)))

\* a written READWRITE block with a read and a write hook whose two first
\* units differ, so that the pair is neither unit's value
C40_Witness ==
    /\ fPowered
    /\ \E addr \in EvenAddrs :
          /\ Blk(addr).type = READWRITE
          /\ Blk(addr).nReadTraps > 0
          /\ Blk(addr).nWriteTraps > 0
          /\ UnitAt(addr) # UnitAt(addr + 1)
          /\ BusReadPair(bus, blocks, mem, addr).ret \notin {UnitAt(addr), UnitAt(addr + 1)}
          /\ Len(BusReadPair(bus, blocks, mem, addr).log) = 2

====
